---- MODULE Spec2Model ----
(***************************************************************************)
(* Model of the unidiff-to-commit pipeline of mobile_jules/server:         *)
(*   GitHubClient._parse_patch            (github_client.py 315-379)       *)
(*   GitHubClient._apply_patch_to_content (github_client.py 381-418)       *)
(*   GitHubClient.create_pr_from_patch    (github_client.py 125-313)       *)
(* Texts are TLA+ strings; a patch is split into lines, matched against    *)
(* the prefixes the code tests and parsed digit by digit, as the code does.*)
(***************************************************************************)
EXTENDS Integers, Sequences, FiniteSets, TLC

(***************************************************************************)
(* Python string primitives.                                               *)
(***************************************************************************)
NL == "\n"

\* s[i:] for a 1-based i (the empty string when i is past the end)
StrFrom(s, i) == IF i > Len(s) THEN "" ELSE SubSeq(s, i, Len(s))

\* s[i] as a one-character string, "" when out of range
CharAt(s, i) == IF i >= 1 /\ i <= Len(s) THEN SubSeq(s, i, i) ELSE ""

\* str.startswith
StartsWith(s, p) == Len(s) >= Len(p) /\ SubSeq(s, 1, Len(p)) = p

\* index of the first newline of s at or after i, 0 when there is none
FindNL(s, i) ==
    IF \A j \in i..Len(s) : CharAt(s, j) # NL THEN 0
    ELSE CHOOSE j \in i..Len(s) :
             CharAt(s, j) = NL /\ \A k \in i..(j - 1) : CharAt(s, k) # NL

\* str.split("\n"): never empty, "" gives <<"">>
RECURSIVE Split(_)
Split(s) ==
    LET k == FindNL(s, 1)
    IN  IF k = 0 THEN <<s>>
        ELSE <<(IF k = 1 THEN "" ELSE SubSeq(s, 1, k - 1))>> \o Split(StrFrom(s, k + 1))

\* "\n".join(seq): the empty list gives ""
RECURSIVE Join(_)
Join(seq) ==
    IF seq = <<>> THEN ""
    ELSE IF Len(seq) = 1 THEN seq[1]
    ELSE seq[1] \o NL \o Join(Tail(seq))

Digits == {"0", "1", "2", "3", "4", "5", "6", "7", "8", "9"}

DigitVal(c) ==
    CASE c = "0" -> 0 [] c = "1" -> 1 [] c = "2" -> 2 [] c = "3" -> 3
      [] c = "4" -> 4 [] c = "5" -> 5 [] c = "6" -> 6 [] c = "7" -> 7
      [] c = "8" -> 8 [] c = "9" -> 9

\* the position after the longest run of digits of s that starts at i (\d+ is greedy)
DigitsEnd(s, i) ==
    IF i > Len(s) THEN i
    ELSE CHOOSE j \in i..(Len(s) + 1) :
             CharAt(s, j) \notin Digits /\ \A k \in i..(j - 1) : CharAt(s, k) \in Digits

\* int() refuses a text of more digits than sys.int_max_str_digits, whose
\* default is 4300, with ValueError; the server does not change the default
IntMaxStrDigits == 4300

\* whether int() of the group raises (a group that took no part is replaced by 1)
IntRaises(grp) == grp # <<>> /\ grp[2] - grp[1] > IntMaxStrDigits

\* int() of the digits s[i..j-1]
RECURSIVE IntOf(_, _, _)
IntOf(s, i, j) ==
    IF j <= i THEN 0 ELSE IntOf(s, i, j - 1) * 10 + DigitVal(CharAt(s, j - 1))

\* the optional group (?:,(\d+))? tried at position i: where the match goes on,
\* and the group's text as <<from, to>>, or <<>> when the group took no part
OptCount(s, i) ==
    IF CharAt(s, i) = "," /\ DigitsEnd(s, i + 1) > i + 1
    THEN [next |-> DigitsEnd(s, i + 1), grp |-> <<i + 1, DigitsEnd(s, i + 1)>>]
    ELSE [next |-> i, grp |-> <<>>]

\* int(match.group(k) or 1)
CountOf(s, grp) == IF grp = <<>> THEN 1 ELSE IntOf(s, grp[1], grp[2])

\* re.match(r"@@ -(\d+)(?:,(\d+))? \+(\d+)(?:,(\d+))? @@", line):
\* <<>> when there is no match, else <<the four groups, each as <<from, to>> or <<>> >>
MatchHunk(line) ==
    IF ~StartsWith(line, "@@ -") THEN <<>>
    ELSE
    LET e1 == DigitsEnd(line, 5)
        o1 == OptCount(line, e1)
        p2 == o1.next
        e3 == DigitsEnd(line, p2 + 2)
        o3 == OptCount(line, e3)
    IN  IF e1 > 5
           /\ CharAt(line, p2) = " " /\ CharAt(line, p2 + 1) = "+"
           /\ e3 > p2 + 2
           /\ StartsWith(StrFrom(line, o3.next), " @@")
        THEN << [g1 |-> <<5, e1>>, g2 |-> o1.grp, g3 |-> <<p2 + 2, e3>>, g4 |-> o3.grp] >>
        ELSE <<>>

\* lines 357-360: whether one of the four int() calls raises
HunkRaises(m) == IntRaises(m.g1) \/ IntRaises(m.g2) \/ IntRaises(m.g3) \/ IntRaises(m.g4)

\* lines 356-362: the hunk the code appends for a match
HunkOf(line, m) ==
    [old_start |-> IntOf(line, m.g1[1], m.g1[2]),
     old_count |-> CountOf(line, m.g2),
     new_start |-> IntOf(line, m.g3[1], m.g3[2]),
     new_count |-> CountOf(line, m.g4),
     lines     |-> <<>>]


(***************************************************************************)
(* _parse_patch.  The dict file_changes is a pair: order (the keys in      *)
(* insertion order) and fc (key -> FileChange).  current_file is <<>> for  *)
(* None and <<path>> for a string; Python's `if current_file:` is false    *)
(* for None and for the empty string.  raised tells that a line has raised *)
(* an exception, which ends the loop: nothing is returned then.            *)
(***************************************************************************)
NewFileChange ==
    [is_new |-> FALSE, is_deleted |-> FALSE, added_lines |-> <<>>,
     removed_lines |-> <<>>, hunks |-> <<>>]

EmptyChanges == [order |-> <<>>, fc |-> <<>>]

ParseInit == [order |-> <<>>, fc |-> <<>>, current_file |-> <<>>, raised |-> FALSE]

\* truthiness of current_file
Truthy(cf) == cf # <<>> /\ cf[1] # ""

\* position of path in order, 0 when it is no key
RECURSIVE KeyIndex(_, _, _)
KeyIndex(order, path, i) ==
    IF i > Len(order) THEN 0
    ELSE IF order[i] = path THEN i
    ELSE KeyIndex(order, path, i + 1)

HasKey(order, path) == KeyIndex(order, path, 1) # 0

\* faulty variant: a key that is opened again is moved to the end
OpenFileMovesKey(st, path) ==
    LET k == KeyIndex(st.order, path, 1)
        keep == {j \in DOMAIN st.order : j # k}
        at(m) == CHOOSE j \in keep : Cardinality({x \in keep : x < j}) = m - 1
    IN  [st EXCEPT !.order = Append([m \in 1..Cardinality(keep) |-> st.order[at(m)]], path),
                   !.fc = Append([m \in 1..Cardinality(keep) |-> st.fc[at(m)]],
                                 NewFileChange),
                   !.current_file = <<path>>]

\* file_changes[current_file] = {...}: a new key goes last, an old key keeps its place
OpenFile(st, path) ==
    LET k == KeyIndex(st.order, path, 1)
    IN  IF k = 0
        THEN [st EXCEPT !.order = Append(st.order, path),
                        !.fc = Append(st.fc, NewFileChange),
                        !.current_file = <<path>>]
        ELSE [st EXCEPT !.fc[k] = NewFileChange,
                        !.current_file = <<path>>]

\* index of the current file's entry
Cur(st) == KeyIndex(st.order, st.current_file[1], 1)

\* the tag and text a content line gets inside a hunk, <<>> when it is dropped
TagContentLine(line) ==
    IF StartsWith(line, "+") /\ ~StartsWith(line, "+++") THEN <<"add", StrFrom(line, 2)>>
    ELSE IF StartsWith(line, "-") /\ ~StartsWith(line, "---") THEN <<"remove", StrFrom(line, 2)>>
    ELSE IF StartsWith(line, " ") THEN <<"context", StrFrom(line, 2)>>
    ELSE <<>>

\* faulty variant: the lines go to the hunk only, the flattened lists stay empty
ContentLineHunkOnly(st, line) ==
    LET k  == Cur(st)
        f  == st.fc[k]
        n  == Len(f.hunks)
        tl == TagContentLine(line)
    IN  IF tl = <<>> THEN st
        ELSE [st EXCEPT !.fc[k].hunks[n].lines = Append(@, tl)]

\* lines 365-375: a content line goes to the last hunk of the current file
ContentLine(st, line) ==
    LET k  == Cur(st)
        f  == st.fc[k]
        n  == Len(f.hunks)
        tl == TagContentLine(line)
        h2 == [f.hunks EXCEPT ![n].lines = Append(@, tl)]
    IN  IF tl = <<>> THEN st
        ELSE IF tl[1] = "add"
        THEN [st EXCEPT !.fc[k] = [f EXCEPT !.hunks = h2,
                                            !.added_lines = Append(@, tl[2])]]
        ELSE IF tl[1] = "remove"
        THEN [st EXCEPT !.fc[k] = [f EXCEPT !.hunks = h2,
                                            !.removed_lines = Append(@, tl[2])]]
        ELSE [st EXCEPT !.fc[k] = [f EXCEPT !.hunks = h2]]

\* the flag a "--- /dev/null" line sets (line 346-349)
MarkNew(st) ==
    IF Truthy(st.current_file) THEN [st EXCEPT !.fc[Cur(st)].is_new = TRUE] ELSE st

\* the flag a "+++ /dev/null" line sets (line 350-353)
MarkDeleted(st) ==
    IF Truthy(st.current_file) THEN [st EXCEPT !.fc[Cur(st)].is_deleted = TRUE] ELSE st

\* lines 354-364: a hunk header that matches opens a hunk on the current file
HunkHeader(st, line) ==
    LET m == MatchHunk(line)
    IN  IF m # <<>> /\ Truthy(st.current_file)
        THEN IF HunkRaises(m[1])
             THEN [st EXCEPT !.raised = TRUE]
             ELSE [st EXCEPT !.fc[Cur(st)].hunks = Append(@, HunkOf(line, m[1]))]
        ELSE st

\* one turn of the while loop (lines 329-375)
ParseLine(st, line) ==
    IF StartsWith(line, "+++ b/") THEN OpenFile(st, StrFrom(line, 7))
    ELSE IF StartsWith(line, "--- a/") THEN st
    ELSE IF StartsWith(line, "--- /dev/null") THEN MarkNew(st)
    ELSE IF StartsWith(line, "+++ /dev/null") THEN MarkDeleted(st)
    ELSE IF StartsWith(line, "@@") THEN HunkHeader(st, line)
    ELSE IF Truthy(st.current_file) /\ st.fc[Cur(st)].hunks # <<>> THEN ContentLine(st, line)
    ELSE st

RECURSIVE ParseLoop(_, _, _)
ParseLoop(st, lines, i) ==
    IF i > Len(lines) \/ st.raised THEN st
    ELSE ParseLoop(ParseLine(st, lines[i]), lines, i + 1)

\* whether _parse_patch(patch) raises instead of returning
ParseRaises(patch) == ParseLoop(ParseInit, Split(patch), 1).raised

\* _parse_patch(patch): the dict it returns, as [order, fc]
ParsePatch(patch) ==
    LET st == ParseLoop(ParseInit, Split(patch), 1)
    IN  [order |-> st.order, fc |-> st.fc]

\* file_changes[path]
Entry(changes, path) == changes.fc[KeyIndex(changes.order, path, 1)]

(***************************************************************************)
(* _apply_patch_to_content.                                                *)
(***************************************************************************)
\* lines 399-401 and 414-416: copy original lines from idx up to (not including) target
RECURSIVE CopyUntil(_, _, _, _)
CopyUntil(original_lines, result_lines, original_idx, target_line) ==
    IF original_idx < target_line /\ original_idx < Len(original_lines)
    THEN CopyUntil(original_lines, Append(result_lines, original_lines[original_idx + 1]),
                   original_idx + 1, target_line)
    ELSE [result_lines |-> result_lines, original_idx |-> original_idx]

\* faulty variant: a Remove line leaves the cursor where it is
RECURSIVE ApplyLinesKeepRemoved(_, _, _, _)
ApplyLinesKeepRemoved(hl, k, result_lines, original_idx) ==
    IF k > Len(hl) THEN [result_lines |-> result_lines, original_idx |-> original_idx]
    ELSE IF hl[k][1] = "context"
    THEN ApplyLinesKeepRemoved(hl, k + 1, Append(result_lines, hl[k][2]), original_idx + 1)
    ELSE IF hl[k][1] = "add"
    THEN ApplyLinesKeepRemoved(hl, k + 1, Append(result_lines, hl[k][2]), original_idx)
    ELSE ApplyLinesKeepRemoved(hl, k + 1, result_lines, original_idx)

\* lines 404-411: the hunk's tagged lines, in order
RECURSIVE ApplyLines(_, _, _, _)
ApplyLines(hl, k, result_lines, original_idx) ==
    IF k > Len(hl) THEN [result_lines |-> result_lines, original_idx |-> original_idx]
    ELSE IF hl[k][1] = "context"
    THEN ApplyLines(hl, k + 1, Append(result_lines, hl[k][2]), original_idx + 1)
    ELSE IF hl[k][1] = "add"
    THEN ApplyLines(hl, k + 1, Append(result_lines, hl[k][2]), original_idx)
    ELSE ApplyLines(hl, k + 1, result_lines, original_idx + 1)

\* faulty variant: the hunk's old_start is taken for a 0-based index
RECURSIVE ApplyHunksOneBased(_, _, _, _, _)
ApplyHunksOneBased(original_lines, hunks, h, result_lines, original_idx) ==
    IF h > Len(hunks) THEN [result_lines |-> result_lines, original_idx |-> original_idx]
    ELSE LET c == CopyUntil(original_lines, result_lines, original_idx,
                            hunks[h].old_start)
             a == ApplyLines(hunks[h].lines, 1, c.result_lines, c.original_idx)
         IN  ApplyHunksOneBased(original_lines, hunks, h + 1, a.result_lines,
                                a.original_idx)

\* faulty variant: a hunk is applied only when its Context and Remove lines are the
\* original's lines at the cursor; another hunk is left out
RECURSIVE ApplyHunksMatching(_, _, _, _, _)
ApplyHunksMatching(original_lines, hunks, h, result_lines, original_idx) ==
    IF h > Len(hunks) THEN [result_lines |-> result_lines, original_idx |-> original_idx]
    ELSE LET c == CopyUntil(original_lines, result_lines, original_idx,
                            hunks[h].old_start - 1)
             a == ApplyLines(hunks[h].lines, 1, c.result_lines, c.original_idx)
             hl == hunks[h].lines
             \* the cursor before line k of the hunk
             at(k) == c.original_idx
                      + Cardinality({j \in 1..(k - 1) : hl[j][1] \in {"context", "remove"}})
             matches == \A k \in DOMAIN hl :
                            hl[k][1] \in {"context", "remove"} =>
                                /\ at(k) < Len(original_lines)
                                /\ original_lines[at(k) + 1] = hl[k][2]
         IN  IF matches
             THEN ApplyHunksMatching(original_lines, hunks, h + 1, a.result_lines,
                                     a.original_idx)
             ELSE ApplyHunksMatching(original_lines, hunks, h + 1, c.result_lines,
                                     c.original_idx)

\* faulty variant: a hunk that starts behind the cursor takes the cursor back
RECURSIVE ApplyHunksRewinding(_, _, _, _, _)
ApplyHunksRewinding(original_lines, hunks, h, result_lines, original_idx) ==
    IF h > Len(hunks) THEN [result_lines |-> result_lines, original_idx |-> original_idx]
    ELSE LET target_line == hunks[h].old_start - 1
             c == IF target_line < original_idx /\ target_line >= 0
                  THEN [result_lines |-> result_lines, original_idx |-> target_line]
                  ELSE CopyUntil(original_lines, result_lines, original_idx, target_line)
             a == ApplyLines(hunks[h].lines, 1, c.result_lines, c.original_idx)
         IN  ApplyHunksRewinding(original_lines, hunks, h + 1, a.result_lines,
                                 a.original_idx)

\* lines 396-411: the hunks in their given order
RECURSIVE ApplyHunks(_, _, _, _, _)
ApplyHunks(original_lines, hunks, h, result_lines, original_idx) ==
    IF h > Len(hunks) THEN [result_lines |-> result_lines, original_idx |-> original_idx]
    ELSE LET c == CopyUntil(original_lines, result_lines, original_idx,
                            hunks[h].old_start - 1)
             a == ApplyLines(hunks[h].lines, 1, c.result_lines, c.original_idx)
         IN  ApplyHunks(original_lines, hunks, h + 1, a.result_lines, a.original_idx)

\* faulty variant: a change without hunks is applied like any other
ApplyPatchToContentNoShortcut(original, changes) ==
    LET original_lines == Split(original)
        a == ApplyHunks(original_lines, changes.hunks, 1, <<>>, 0)
        r == CopyUntil(original_lines, a.result_lines, a.original_idx,
                       Len(original_lines))
    IN  Join(r.result_lines)

\* _apply_patch_to_content(original, changes)
ApplyPatchToContent(original, changes) ==
    IF changes.hunks = <<>> THEN Join(changes.added_lines)
    ELSE LET original_lines == Split(original)
             a == ApplyHunks(original_lines, changes.hunks, 1, <<>>, 0)
             r == CopyUntil(original_lines, a.result_lines, a.original_idx,
                            Len(original_lines))
         IN  Join(r.result_lines)


(***************************************************************************)
(* create_pr_from_patch.  Every `await client.get/post` is one step; the   *)
(* code between two awaits runs without interleaving (one event loop).     *)
(***************************************************************************)
VARIABLES
    now,      \* the wall clock, in ticks of 1/TicksPerSecond second
    args,     \* invocation -> the arguments of create_pr_from_patch
    inv,      \* invocation -> its local variables and its position (pc)
    calls,    \* invocation -> the remote calls it has issued, in order, with their outcome
    refs,     \* the branch refs the remote repository holds: {[ref, sha]}
    pulls,    \* number of pull requests the remote repository holds
    src,      \* the texts a patch under test was made from
    patch,    \* the text handed to _parse_patch
    parsed,   \* what _parse_patch returned
    original, \* the base text handed to _apply_patch_to_content
    applied,  \* what _apply_patch_to_content returned
    ppc,      \* "start", "parsed" or "raised", "applied" ("off" when only the builder runs)
    github_token,           \* whether GITHUB_TOKEN is set in the server's environment
    jules,                  \* what the remote agent API holds: raw session id -> session
    completed_session_data, \* main.py line 61: the process-wide cache, key -> change set data
    req,                    \* request -> the locals and position of its endpoint handler
    active_sessions,        \* notifications.py line 149: session_id -> its user and last known state, in insertion order
    user_sessions,          \* notifications.py line 150: user_id -> the session ids tracked for the user
    notified,               \* the calls of notification_service.notify_*, in order
    poll                    \* the position and the locals of the poller's poll_once

buildVars == <<now, args, inv, calls, refs, pulls>>
patchVars == <<src, patch, parsed, original, applied, ppc>>
cacheVars == <<github_token, jules, completed_session_data, req>>
pollVars == <<active_sessions, user_sessions, notified, poll>>
vars == <<now, args, inv, calls, refs, pulls, src, patch, parsed, original, applied, ppc,
          github_token, jules, completed_session_data, req,
          active_sessions, user_sessions, notified, poll>>

\* Bounds of the model
MaxClock == 2
TicksPerSecond == 2
MaxFiles == 2

\* None, and a value that is not None
None == <<>>
Some(x) == <<x>>

\* outcome of a remote call: a 2xx response, another status, or the call raising
\* (timeout, transport error, undecodable body)
Outcomes == {"ok", "status", "exc"}

\* datetime.now().strftime("%Y%m%d-%H%M%S"): the clock cut to whole seconds
Timestamp(t) == ToString(t \div TicksPerSecond)

\* line 152
BranchName(t) == "jules-patch-" \o Timestamp(t)

\* str.strip() for the whitespace the messages contain (space and newline)
IsSpace(c) == c = " " \/ c = NL

RECURSIVE LStrip(_)
LStrip(s) == IF s # "" /\ IsSpace(CharAt(s, 1)) THEN LStrip(StrFrom(s, 2)) ELSE s

RECURSIVE RStrip(_)
RStrip(s) ==
    IF s # "" /\ IsSpace(CharAt(s, Len(s)))
    THEN RStrip(IF Len(s) = 1 THEN "" ELSE SubSeq(s, 1, Len(s) - 1))
    ELSE s

Strip(s) == RStrip(LStrip(s))

\* faulty variant: the whole message is the title
MessageTitleWhole(commit_message) == Strip(commit_message)

\* lines 254-256: title and body of the commit message
MessageTitle(commit_message) ==
    LET m == Strip(commit_message)
        k == FindNL(m, 1)
    IN  IF k = 0 THEN m ELSE IF k = 1 THEN "" ELSE SubSeq(m, 1, k - 1)

MessageBody(commit_message) ==
    LET m == Strip(commit_message)
        k == FindNL(m, 1)
    IN  IF k = 0 THEN "" ELSE Strip(StrFrom(m, k + 1))

DefaultBody == "Created by Jules via Mobile App"

\* the locals before the call
IdleInv ==
    [pc |-> "idle", started |-> None, timestamp |-> None, branch_name |-> "", file_changes |-> EmptyChanges, idx |-> 0,
     base_sha |-> "", base_tree_sha |-> "", new_content |-> "", tree_items |-> <<>>,
     new_tree_sha |-> None, new_commit_sha |-> None, title |-> "", body |-> "",
     result |-> [kind |-> "none"]]

\* a raised exception ends the invocation
Raise(s, error, step) ==
    [s EXCEPT !.pc = "done", !.result = [kind |-> "raise", error |-> error, step |-> step]]

\* faulty variant: the empty change set is not refused
NoChangesNever(file_changes) == FALSE

\* line 157: `if not file_changes`
NoChanges(file_changes) == file_changes.order = <<>>

\* faulty variant: raise_for_status() is left out
RaisesForStatusNever(outcome) == FALSE

\* response.raise_for_status()
RaisesForStatus(outcome) == outcome = "status"

\* faulty variant: a call that raises (a timeout) is taken for a success
FailedOnStatusOnly(outcome) == RaisesForStatus(outcome)

\* a fatal call: the call itself raising, or raise_for_status raising
Failed(outcome) == outcome = "exc" \/ RaisesForStatus(outcome)

ErrorOf(outcome) == IF outcome = "exc" THEN "RequestError" ELSE "HTTPStatusError"

\* lines 195-202: the tree entry of a deleted file
Tombstone(file_path) ==
    [path |-> file_path, mode |-> "100644", type |-> "blob", sha |-> None]

\* lines 236-241
BlobItem(file_path, blob_sha) ==
    [path |-> file_path, mode |-> "100644", type |-> "blob", sha |-> Some(blob_sha)]

\* lines 192-203: which branch of the loop body a FileChange takes
FileKind(changes) ==
    IF changes.is_new THEN "new"
    ELSE IF changes.is_deleted THEN "deleted"
    ELSE "modified"

\* faulty variant: the loop is left after looking at no file
LoopFromBreak(s, k) == [s EXCEPT !.pc = "tree", !.idx = k]

\* lines 191-226, from the head of the for loop at file k up to the next await:
\* deleted files are handled without a remote call
RECURSIVE LoopFrom(_, _)
LoopFrom(s, k) ==
    IF k > Len(s.file_changes.order) THEN [s EXCEPT !.pc = "tree", !.idx = k]
    ELSE LET changes   == s.file_changes.fc[k]
             file_path == s.file_changes.order[k]
         IN  CASE FileKind(changes) = "new" ->
                    [s EXCEPT !.pc = "blob", !.idx = k,
                              !.new_content = Join(changes.added_lines)]
               [] FileKind(changes) = "deleted" ->
                    LoopFrom([s EXCEPT !.tree_items = Append(@, Tombstone(file_path))],
                             k + 1)
               [] OTHER -> [s EXCEPT !.pc = "fetch", !.idx = k]

\* faulty variant: no try/except around the fetch
FetchRaisesOnException(outcome) == outcome = "exc"

\* lines 206-225: is a failed base-content fetch propagated?  (it is caught)
FetchRaises(outcome) == FALSE

\* lines 212-225: the content after the fetch
FetchedContent(outcome, current_content, changes) ==
    IF outcome = "ok" THEN ApplyPatchToContent(current_content, changes)
    ELSE Join(changes.added_lines)

\* faulty variant: branch_only is ignored
SkipsPullRequestNever(branch_only) == FALSE

\* line 284: `if branch_only`
SkipsPullRequest(branch_only) == branch_only

\* faulty variant: the commit is made without a parent
CommitParentsNone(base_sha) == <<>>

\* line 264: "parents": [base_sha]
CommitParents(base_sha) == <<base_sha>>

\* The remote is a content-addressed store: the handle of an object is decided by
\* its content (a commit's content includes the second it was made in).
BlobSha(content) == "blob:" \o content

TreeSha(base_tree, tree) == [base_tree |-> base_tree, tree |-> tree]

CommitSha(message, tree, parents, t) ==
    [message |-> message, tree |-> tree, parents |-> parents, date |-> Timestamp(t)]

Call(op, path, data, outcome) ==
    [op |-> op, path |-> path, data |-> data, outcome |-> outcome]


(***************************************************************************)
(* The patches the callers pass: unified diffs written section by section. *)
(* A section descriptor [kind, path, lines] is kept beside the text so     *)
(* that a property can say what the patch was written to do.               *)
(***************************************************************************)
HunkRange(start, n) == ToString(start) \o (IF n = 1 THEN "" ELSE "," \o ToString(n))

Prefixed(prefix, lines) == [k \in 1..Len(lines) |-> prefix \o lines[k]]

\* the text of one section
SectionLines(sec) ==
    CASE sec.kind = "create" ->   \* standard order: old side, new side, hunk
           <<"--- /dev/null", "+++ b/" \o sec.path,
             "@@ -0,0 +" \o HunkRange(1, Len(sec.lines)) \o " @@">>
           \o Prefixed("+", sec.lines)
      [] sec.kind = "modify" ->
           <<"--- a/" \o sec.path, "+++ b/" \o sec.path, "@@ -1,3 +1,3 @@",
             " context1", "-old2">> \o Prefixed("+", sec.lines) \o <<" context3">>
      [] sec.kind = "delete" ->   \* standard order: the new side is /dev/null
           <<"--- a/" \o sec.path, "+++ /dev/null",
             "@@ -" \o HunkRange(1, Len(sec.lines)) \o " +0,0 @@">>
           \o Prefixed("-", sec.lines)
      [] sec.kind = "create_after" ->   \* the /dev/null marker follows the file header
           <<"+++ b/" \o sec.path, "--- /dev/null",
             "@@ -0,0 +" \o HunkRange(1, Len(sec.lines)) \o " @@">>
           \o Prefixed("+", sec.lines)
      [] sec.kind = "delete_after" ->
           <<"+++ b/" \o sec.path, "+++ /dev/null",
             "@@ -" \o HunkRange(1, Len(sec.lines)) \o " +0,0 @@">>
           \o Prefixed("-", sec.lines)
      [] sec.kind = "both_after" ->     \* both markers after the file header
           <<"+++ b/" \o sec.path, "--- /dev/null", "+++ /dev/null",
             "@@ -0,0 +" \o HunkRange(1, Len(sec.lines)) \o " @@">>
           \o Prefixed("+", sec.lines)
      [] OTHER -> sec.lines             \* text that is no diff

RECURSIVE PatchLines(_)
PatchLines(secs) ==
    IF secs = <<>> THEN <<>> ELSE SectionLines(Head(secs)) \o PatchLines(Tail(secs))

PatchText(secs) == Join(PatchLines(secs))

Sec(kind, path, lines) == [kind |-> kind, path |-> path, lines |-> lines]

Sections ==
    { Sec("create", "new.txt", <<"hello", "world">>),
      Sec("modify", "a.txt", <<"new2">>),
      Sec("delete", "gone.txt", <<"x">>),
      Sec("create_after", "late.txt", <<"hello">>),
      Sec("delete_after", "old.txt", <<"x">>),
      Sec("both_after", "odd.txt", <<"y">>),
      Sec("text", "", <<"not a diff">>) }

\* the section lists of at most MaxFiles sections, each path once
DistinctPaths(secs) ==
    \A j, k \in 1..Len(secs) : j # k => secs[j].path # secs[k].path

SectionLists ==
    UNION { {secs \in [1..n -> Sections] : DistinctPaths(secs)} : n \in 0..MaxFiles }

\* a patch that names a file in two of its sections, with another file between them
RepeatedSections ==
    << Sec("modify", "a.txt", <<"new2">>), Sec("delete_after", "old.txt", <<"x">>),
       Sec("modify", "a.txt", <<"new2">>) >>

\* what the remote may hold for a path at the base commit
BaseContents == {"context1\nold2\ncontext3", "other"}

CommitMessages == {"Fix bug", "Fix bug\n\nDetails\n"}

\* the arguments of a call whose patch was written as secs
ArgsOf(secs, commit_message, base_branch, base_commit_id, branch_only) ==
    [sections |-> secs, owner |-> "owner", repo |-> "repo", patch |-> PatchText(secs),
     commit_message |-> commit_message, base_branch |-> base_branch,
     base_commit_id |-> base_commit_id, branch_only |-> branch_only]

BuildArgs ==
    { ArgsOf(secs, m, "main", b, o) :
        secs \in SectionLists \cup {RepeatedSections}, m \in CommitMessages, b \in {"", "abc123"}, o \in BOOLEAN }

\* the text handed to create_pr_from_patch
PatchOf(a) == a.patch

Invocations == DOMAIN args

\* the parser and the reconstructor are not run on their own
PatchOff ==
    /\ src = [kind |-> "none"]
    /\ patch = ""
    /\ parsed = EmptyChanges
    /\ original = ""
    /\ applied = ""
    /\ ppc = "off"

\* no call of create_pr_from_patch
\* no request to the server's endpoints
CacheOff ==
    /\ github_token = FALSE
    /\ jules = <<>>
    /\ completed_session_data = <<>>
    /\ req = <<>>

\* no SessionPoller
PollOff ==
    /\ active_sessions = <<>>
    /\ user_sessions = <<>>
    /\ notified = <<>>
    /\ poll = [pc |-> "off"]

BuildOff ==
    /\ now = 0
    /\ args = <<>>
    /\ inv = <<>>
    /\ calls = <<>>
    /\ refs = {}
    /\ pulls = 0

Init ==
    /\ now = 0
    /\ args \in [{1} -> BuildArgs]
    /\ inv = [i \in DOMAIN args |-> IdleInv]
    /\ calls = [i \in DOMAIN args |-> <<>>]
    /\ refs = {}
    /\ pulls = 0
    /\ PatchOff
    /\ CacheOff
    /\ PollOff

(***************************************************************************)
(* The steps of create_pr_from_patch(i).                                   *)
(***************************************************************************)
\* time passes
Tick ==
    /\ now < MaxClock
    /\ now' = now + 1
    /\ UNCHANGED <<args, inv, calls, refs, pulls, patchVars, cacheVars, pollVars>>

\* lines 150-160: name the branch, parse, refuse an empty change set
Begin(i) ==
    /\ inv[i].pc = "idle"
    /\ LET file_changes == ParsePatch(PatchOf(args[i]))
           s == [inv[i] EXCEPT !.started = Some(now),     \* what datetime.now() read
                               !.timestamp = Some(Timestamp(now)),
                               !.branch_name = BranchName(now),
                               !.file_changes = file_changes]
       IN  inv' = [inv EXCEPT ![i] =
                      IF ParseRaises(PatchOf(args[i]))
                      THEN Raise(s, "ValueError", "parse_patch")
                      ELSE IF NoChanges(file_changes)
                      THEN Raise(s, "ValueError", "parse")
                      ELSE [s EXCEPT !.pc = IF args[i].base_commit_id # ""
                                            THEN "get_commit" ELSE "get_ref",
                                     !.base_sha = args[i].base_commit_id]]
    /\ UNCHANGED <<now, args, calls, refs, pulls, patchVars, cacheVars, pollVars>>

\* lines 172-177: the tip of base_branch
GetRef(i) ==
    /\ inv[i].pc = "get_ref"
    /\ \E outcome \in Outcomes :
         /\ calls' = [calls EXCEPT ![i] = Append(@, Call("get_ref", "", args[i].base_branch, outcome))]
         /\ inv' = [inv EXCEPT ![i] =
                      IF Failed(outcome) THEN Raise(inv[i], ErrorOf(outcome), "get_ref")
                      ELSE [inv[i] EXCEPT !.pc = "get_commit",
                                     !.base_sha = "tip-" \o args[i].base_branch]]
    /\ UNCHANGED <<now, args, refs, pulls, patchVars, cacheVars, pollVars>>

\* lines 165-170 and 180-185: the tree of the base commit, then the head of the loop
GetCommit(i) ==
    /\ inv[i].pc = "get_commit"
    /\ \E outcome \in Outcomes :
         /\ calls' = [calls EXCEPT ![i] = Append(@, Call("get_commit", "", inv[i].base_sha, outcome))]
         /\ inv' = [inv EXCEPT ![i] =
                      IF Failed(outcome) THEN Raise(inv[i], ErrorOf(outcome), "get_commit")
                      ELSE LoopFrom([inv[i] EXCEPT !.base_tree_sha = "tree-of-" \o inv[i].base_sha],
                                    1)]
    /\ UNCHANGED <<now, args, refs, pulls, patchVars, cacheVars, pollVars>>

\* lines 206-225: the base content of a modified file; a failure is absorbed
FetchContent(i) ==
    /\ inv[i].pc = "fetch"
    /\ \E outcome \in Outcomes :
       \E got \in (IF outcome = "ok" THEN BaseContents ELSE {""}) :
         LET k == inv[i].idx
             file_path == inv[i].file_changes.order[k]
             changes == inv[i].file_changes.fc[k]
         IN  /\ calls' = [calls EXCEPT ![i] = Append(@, Call("get_contents", file_path,
                                            [ref |-> inv[i].base_sha, content |-> got],
                                            outcome))]
             /\ inv' = [inv EXCEPT ![i] =
                          IF outcome # "ok" /\ FetchRaises(outcome)
                          THEN Raise(inv[i], ErrorOf(outcome), "get_contents")
                          ELSE [inv[i] EXCEPT !.pc = "blob",
                                         !.new_content =
                                             FetchedContent(outcome, got, changes)]]
    /\ UNCHANGED <<now, args, refs, pulls, patchVars, cacheVars, pollVars>>

\* lines 228-241: the blob and its tree entry, then on to the next file
CreateBlob(i) ==
    /\ inv[i].pc = "blob"
    /\ \E outcome \in Outcomes :
         LET k == inv[i].idx
             file_path == inv[i].file_changes.order[k]
             blob_sha == BlobSha(inv[i].new_content)
         IN  /\ calls' = [calls EXCEPT ![i] = Append(@, Call("post_blob", file_path,
                                            inv[i].new_content, outcome))]
             /\ inv' = [inv EXCEPT ![i] =
                          IF Failed(outcome) THEN Raise(inv[i], ErrorOf(outcome), "post_blob")
                          ELSE LoopFrom([inv[i] EXCEPT !.tree_items =
                                                   Append(@, BlobItem(file_path, blob_sha))],
                                        k + 1)]
    /\ UNCHANGED <<now, args, refs, pulls, patchVars, cacheVars, pollVars>>

\* lines 244-256: the tree; then the title and body of the message
CreateTree(i) ==
    /\ inv[i].pc = "tree"
    /\ \E outcome \in Outcomes :
         /\ calls' = [calls EXCEPT ![i] = Append(@, Call("post_tree", "",
                                        [base_tree |-> inv[i].base_tree_sha,
                                         tree |-> inv[i].tree_items], outcome))]
         /\ inv' = [inv EXCEPT ![i] =
                      IF Failed(outcome) THEN Raise(inv[i], ErrorOf(outcome), "post_tree")
                      ELSE [inv[i] EXCEPT !.pc = "commit",
                                     !.new_tree_sha =
                                         Some(TreeSha(inv[i].base_tree_sha,
                                                      inv[i].tree_items)),
                                     !.title = MessageTitle(args[i].commit_message),
                                     !.body = MessageBody(args[i].commit_message)]]
    /\ UNCHANGED <<now, args, refs, pulls, patchVars, cacheVars, pollVars>>

\* lines 258-268
CreateCommit(i) ==
    /\ inv[i].pc = "commit"
    /\ \E outcome \in Outcomes :
         /\ calls' = [calls EXCEPT ![i] = Append(@, Call("post_commit", "",
                                        [message |-> args[i].commit_message,
                                         tree |-> inv[i].new_tree_sha,
                                         parents |-> CommitParents(inv[i].base_sha)], outcome))]
         /\ inv' = [inv EXCEPT ![i] =
                      IF Failed(outcome) THEN Raise(inv[i], ErrorOf(outcome), "post_commit")
                      ELSE [inv[i] EXCEPT !.pc = "ref",
                                     !.new_commit_sha =
                                         Some(CommitSha(args[i].commit_message,
                                                        inv[i].new_tree_sha,
                                                        CommitParents(inv[i].base_sha), now))]]
    /\ UNCHANGED <<now, args, refs, pulls, patchVars, cacheVars, pollVars>>

BranchUrl(branch_name) == "https://github.com/owner/repo/tree/" \o branch_name

\* lines 271-291: the branch ref (the remote refuses a ref that exists), and the
\* return of a branch-only call
CreateRef(i) ==
    /\ inv[i].pc = "ref"
    /\ \E outcome \in Outcomes :
         LET name == "refs/heads/" \o inv[i].branch_name
         IN  /\ (\E r \in refs : r.ref = name) => outcome # "ok"
             /\ calls' = [calls EXCEPT ![i] = Append(@, Call("post_ref", "",
                                            [ref |-> name, sha |-> inv[i].new_commit_sha],
                                            outcome))]
             /\ refs' = IF outcome = "ok"
                        THEN refs \cup {[ref |-> name, sha |-> inv[i].new_commit_sha]}
                        ELSE refs
             /\ inv' = [inv EXCEPT ![i] =
                          IF Failed(outcome) THEN Raise(inv[i], ErrorOf(outcome), "post_ref")
                          ELSE IF SkipsPullRequest(args[i].branch_only)
                          THEN [inv[i] EXCEPT !.pc = "done",
                                         !.result = [kind |-> "return", success |-> TRUE,
                                                     type |-> "branch",
                                                     branch |-> inv[i].branch_name,
                                                     branch_url |-> BranchUrl(inv[i].branch_name),
                                                     title |-> inv[i].title]]
                          ELSE [inv[i] EXCEPT !.pc = "pull"]]
    /\ UNCHANGED <<now, args, pulls, patchVars, cacheVars, pollVars>>

\* lines 293-313
CreatePull(i) ==
    /\ inv[i].pc = "pull"
    /\ \E outcome \in Outcomes :
         /\ calls' = [calls EXCEPT ![i] = Append(@, Call("post_pull", "",
                                        [title |-> inv[i].title,
                                         head |-> inv[i].branch_name,
                                         base |-> args[i].base_branch,
                                         body |-> IF inv[i].body # "" THEN inv[i].body
                                                  ELSE DefaultBody], outcome))]
         /\ pulls' = IF outcome = "ok" THEN pulls + 1 ELSE pulls
         /\ inv' = [inv EXCEPT ![i] =
                      IF Failed(outcome) THEN Raise(inv[i], ErrorOf(outcome), "post_pull")
                      ELSE [inv[i] EXCEPT !.pc = "done",
                                     !.result = [kind |-> "return", success |-> TRUE,
                                                 type |-> "pr", pr_number |-> pulls + 1,
                                                 pr_url |-> "pull-" \o ToString(pulls + 1),
                                                 branch |-> inv[i].branch_name,
                                                 title |-> inv[i].title]]]
    /\ UNCHANGED <<now, args, refs, patchVars, cacheVars, pollVars>>

Next ==
    \/ Tick
    \/ \E i \in Invocations : Begin(i)
    \/ \E i \in Invocations : GetRef(i)
    \/ \E i \in Invocations : GetCommit(i)
    \/ \E i \in Invocations : FetchContent(i)
    \/ \E i \in Invocations : CreateBlob(i)
    \/ \E i \in Invocations : CreateTree(i)
    \/ \E i \in Invocations : CreateCommit(i)
    \/ \E i \in Invocations : CreateRef(i)
    \/ \E i \in Invocations : CreatePull(i)

Spec == Init /\ [][Next]_vars


(***************************************************************************)
(* Two calls of create_pr_from_patch in one process: the coroutines        *)
(* interleave at their awaits and share the clock and the repository.      *)
(***************************************************************************)
ConcArgs ==
    { ArgsOf(<<Sec("create", "new.txt", <<"hello", "world">>)>>, "Fix bug", "main", "", o) :
        o \in BOOLEAN }

InitConcurrent ==
    /\ now = 0
    /\ args \in [{1, 2} -> ConcArgs]
    /\ inv = [i \in DOMAIN args |-> IdleInv]
    /\ calls = [i \in DOMAIN args |-> <<>>]
    /\ refs = {}
    /\ pulls = 0
    /\ PatchOff
    /\ CacheOff
    /\ PollOff

SpecConcurrent == InitConcurrent /\ [][Next]_vars

(***************************************************************************)
(* The parser and the reconstructor on their own: a patch is made from two *)
(* texts A and B, parsed, and applied to A.                                *)
(***************************************************************************)
MaxLines == 2

LineTexts == {"", "a", "+b", "--c"}

\* the texts of 1..MaxLines lines (split never gives fewer than one line)
Texts == UNION { {Join(ls) : ls \in [1..n -> LineTexts]} : n \in 1..MaxLines }

\* length of the longest common prefix of two line lists
RECURSIVE CommonPrefix(_, _)
CommonPrefix(x, y) ==
    IF x # <<>> /\ y # <<>> /\ Head(x) = Head(y)
    THEN 1 + CommonPrefix(Tail(x), Tail(y)) ELSE 0

Reverse(x) == [k \in 1..Len(x) |-> x[Len(x) + 1 - k]]

Drop(x, n) == IF n >= Len(x) THEN <<>> ELSE SubSeq(x, n + 1, Len(x))

Take(x, n) == IF n <= 0 THEN <<>> ELSE SubSeq(x, 1, n)

\* a unified diff from text A to text B for file P, with full context, in one hunk:
\* the common leading lines, the lines only A has, the lines only B has, the common
\* trailing lines
DiffPatch(P, A, B) ==
    LET la == Split(A)
        lb == Split(B)
        pre == CommonPrefix(la, lb)
        ra == Drop(la, pre)
        rb == Drop(lb, pre)
        suf == CommonPrefix(Reverse(ra), Reverse(rb))
        del == Take(ra, Len(ra) - suf)
        ins == Take(rb, Len(rb) - suf)
    IN  Join(<<"--- a/" \o P, "+++ b/" \o P,
               "@@ -" \o HunkRange(1, Len(la)) \o " +" \o HunkRange(1, Len(lb)) \o " @@">>
             \o Prefixed(" ", Take(la, pre))
             \o Prefixed("-", del)
             \o Prefixed("+", ins)
             \o Prefixed(" ", Drop(ra, Len(ra) - suf)))

DiffPath == "f.txt"

InitPatch ==
    /\ BuildOff
    /\ CacheOff
    /\ PollOff
    /\ \E A \in Texts, B \in Texts :
         /\ A # B
         /\ src = [kind |-> "diff", path |-> DiffPath, A |-> A, B |-> B]
         /\ patch = DiffPatch(DiffPath, A, B)
         /\ original = A
    /\ parsed = EmptyChanges
    /\ applied = ""
    /\ ppc = "start"

\* file_changes = self._parse_patch(patch): it returns, or it raises
Parse ==
    /\ ppc = "start"
    /\ IF ParseRaises(patch)
       THEN parsed' = parsed /\ ppc' = "raised"
       ELSE parsed' = ParsePatch(patch) /\ ppc' = "parsed"
    /\ UNCHANGED <<src, patch, original, applied, buildVars, cacheVars, pollVars>>

\* self._apply_patch_to_content(original, file_changes[path])
Apply ==
    /\ ppc = "parsed"
    /\ HasKey(parsed.order, src.path)
    /\ applied' = ApplyPatchToContent(original, Entry(parsed, src.path))
    /\ ppc' = "applied"
    /\ UNCHANGED <<src, patch, parsed, original, buildVars, cacheVars, pollVars>>

NextPatch == Parse \/ Apply

SpecPatch == InitPatch /\ [][NextPatch]_vars

(***************************************************************************)
(* The parser on any text: every sequence of at most MaxPatchLines lines   *)
(* over the line forms the parser tells apart.                             *)
(***************************************************************************)
MaxPatchLines == 3

RECURSIVE Repeat(_, _)
Repeat(s, n) ==
    IF n = 0 THEN ""
    ELSE IF n % 2 = 1 THEN s \o Repeat(s, n - 1)
    ELSE LET h == Repeat(s, n \div 2) IN h \o h

\* a hunk header whose first number has one digit more than int() accepts
LongHunkHeader == "@@ -" \o Repeat("1", IntMaxStrDigits + 1) \o " +1 @@"

PatchLineTexts ==
    { "+++ b/f",          \* a file header
      "+++ b/",           \* a file header with the empty path
      "--- /dev/null",
      "+++ /dev/null",
      "@@ -1 +1 @@",
      "@@ -1,x +1 @@",    \* a hunk header the pattern does not match
      "+a",               \* a content line
      LongHunkHeader }

\* the empty text, and the texts of 1..MaxPatchLines lines
InitParse ==
    /\ BuildOff
    /\ CacheOff
    /\ PollOff
    /\ \E n \in 0..MaxPatchLines : \E ls \in [1..n -> PatchLineTexts] :
         /\ src = [kind |-> "lines", lines |-> ls]
         /\ patch = Join(ls)
    /\ parsed = EmptyChanges
    /\ original = ""
    /\ applied = ""
    /\ ppc = "start"

NextParse == Parse

SpecParse == InitParse /\ [][NextParse]_vars

(***************************************************************************)
(* The parser on the lines of one or two files' hunks: headers that match  *)
(* the hunk-header pattern and one that does not, the three kinds of       *)
(* content line, and a line of three plus signs that is no file header.    *)
(***************************************************************************)
MaxHunkTextLines == 5

HunkLineTexts ==
    { "+++ b/f",
      "+++ b/g",
      "@@ -1 +1 @@",
      "@@ -1,x +1 @@",    \* a hunk header the pattern does not match
      "+a",
      "-b",
      " c",
      "+++ c",            \* three signs: neither a header nor a content line
      "--- d" }

InitHunks ==
    /\ BuildOff
    /\ CacheOff
    /\ PollOff
    /\ \E n \in 0..MaxHunkTextLines : \E ls \in [1..n -> HunkLineTexts] :
         /\ src = [kind |-> "lines", lines |-> ls]
         /\ patch = Join(ls)
    /\ parsed = EmptyChanges
    /\ original = ""
    /\ applied = ""
    /\ ppc = "start"

NextHunks == Parse

SpecHunks == InitHunks /\ [][NextHunks]_vars


(***************************************************************************)
(* The reconstructor on its own: _apply_patch_to_content on a FileChange   *)
(* that is given as such, with none, one or several hunks, placed well or  *)
(* badly against the original.                                             *)
(***************************************************************************)
MaxOrigLines == 3

MaxHunkLines == 2

MaxHunks == 2

\* the sequences over S of m to n elements
SeqsOf(S, m, n) == UNION { [1..k -> S] : k \in m..n }

OriginalTexts == {""} \cup { Join(ls) : ls \in SeqsOf({"a", "b"}, 1, MaxOrigLines) }

TaggedLines == { <<"context", "a">>, <<"context", "b">>, <<"remove", "a">>, <<"add", "c">> }

\* how many of the hunk's lines have one of the tags
CountTagged(hl, tags) == Cardinality({k \in DOMAIN hl : hl[k][1] \in tags})

\* a hunk at old_start whose counts are those of its lines
HunkAt(old_start, hl) ==
    [old_start |-> old_start, old_count |-> CountTagged(hl, {"context", "remove"}),
     new_start |-> old_start, new_count |-> CountTagged(hl, {"context", "add"}),
     lines |-> hl]

\* old_start from 0 (no line has that number) up to MaxOrigLines (beyond the end of a
\* shorter original)
HunksGiven ==
    { HunkAt(st, hl) : st \in 0..MaxOrigLines, hl \in SeqsOf(TaggedLines, 0, MaxHunkLines) }

\* the texts of the hunks' lines that have the tag, in order
RECURSIVE TaggedTexts(_, _, _)
TaggedTexts(hunks, h, tag) ==
    IF h > Len(hunks) THEN <<>>
    ELSE SelectSeq([k \in DOMAIN hunks[h].lines |->
                       IF hunks[h].lines[k][1] = tag THEN <<hunks[h].lines[k][2]>> ELSE <<>>],
                   LAMBDA x : x # <<>>)
         \o TaggedTexts(hunks, h + 1, tag)

Unwrap(seq) == [k \in DOMAIN seq |-> seq[k][1]]

\* the FileChange the parser builds for these hunks
ChangeWith(hunks) ==
    [is_new |-> FALSE, is_deleted |-> FALSE,
     added_lines |-> Unwrap(TaggedTexts(hunks, 1, "add")),
     removed_lines |-> Unwrap(TaggedTexts(hunks, 1, "remove")),
     hunks |-> hunks]

\* a FileChange without hunks, with any added_lines
ChangeWithout(added_lines) ==
    [is_new |-> FALSE, is_deleted |-> FALSE, added_lines |-> added_lines,
     removed_lines |-> <<>>, hunks |-> <<>>]

ChangesGiven ==
    { ChangeWith(hunks) : hunks \in SeqsOf(HunksGiven, 1, MaxHunks) }
    \cup { ChangeWithout(al) : al \in SeqsOf({"a", "c"}, 0, MaxHunkLines) }

InitApply ==
    /\ BuildOff
    /\ CacheOff
    /\ PollOff
    /\ src = [kind |-> "change", path |-> DiffPath]
    /\ patch = ""
    /\ original \in OriginalTexts
    /\ \E changes \in ChangesGiven : parsed = [order |-> <<DiffPath>>, fc |-> <<changes>>]
    /\ applied = ""
    /\ ppc = "parsed"

NextApply == Apply

SpecApply == InitApply /\ [][NextApply]_vars

(***************************************************************************)
(* The endpoints around the pending change sets (main.py): parse_activity  *)
(* on a completion event, delete_session and create_github_pr.  The remote *)
(* agent API holds sessions by raw id; the resource name of a session is   *)
(* sessions/<raw id>, and a request names a session in either form.  A     *)
(* handler runs from one await to the next without interleaving.           *)
(***************************************************************************)
MaxRequests == 2

Requests == 1..MaxRequests

SessionRaw == "123"

SessionName == "sessions/" \o SessionRaw

KeyForms == {SessionRaw, SessionName}

\* the resource name of the session with raw id s, and the raw id in a resource name
NameOf(s) == "sessions/" \o s

RawOf(name) == StrFrom(name, Len("sessions/") + 1)

\* the forms in which the clients name the sessions the agent API has been given
KeysAsked == UNION { {s, NameOf(s)} : s \in DOMAIN jules }

\* s[:k-1] for a 1-based k
Before(s, k) == IF k <= 1 THEN "" ELSE SubSeq(s, 1, k - 1)

\* index of the first occurrence of sub in s at or after i, 0 when there is none
RECURSIVE FindSub(_, _, _)
FindSub(s, sub, i) ==
    IF i + Len(sub) - 1 > Len(s) THEN 0
    ELSE IF SubSeq(s, i, i + Len(sub) - 1) = sub THEN i
    ELSE FindSub(s, sub, i + 1)

\* s.split(sep) for a non-empty sep
RECURSIVE SplitOn(_, _)
SplitOn(s, sep) ==
    LET k == FindSub(s, sep, 1)
    IN  IF k = 0 THEN <<s>>
        ELSE <<Before(s, k)>> \o SplitOn(StrFrom(s, k + Len(sep)), sep)

RECURSIVE Concat(_)
Concat(seq) == IF seq = <<>> THEN "" ELSE Head(seq) \o Concat(Tail(seq))

\* line 369: source.replace("sources/github/", "").split("/")
SourceParts(source) == SplitOn(Concat(SplitOn(source, "sources/github/")), "/")

\* lines 153-154: delete_session puts the id into the form sessions/ID
NormalisedId(session_id) ==
    IF StartsWith(session_id, "sessions/") THEN session_id ELSE "sessions/" \o session_id

\* the dict completed_session_data as a function from its keys
EmptyCache == [k \in {} |-> None]

\* faulty variant: the delete clears the whole dict
CacheDelAll(c, key) == [k \in {} |-> None]

CacheDel(c, key) == [k \in DOMAIN c \ {key} |-> c[k]]

CachePut(c, key, d) == [k \in DOMAIN c \cup {key} |-> IF k = key THEN d ELSE c[k]]

\* x or default, for an optional value
OrDefault(x, default) == IF x = None THEN default ELSE x[1]

\* lines 343-348 and 724-729: the entry made from a changeSet
DataOf(cs) ==
    [source |-> cs.source,
     patch |-> cs.gitPatch.unidiffPatch,
     commit_message |-> OrDefault(cs.gitPatch.suggestedCommitMessage, "Changes by Jules"),
     base_commit_id |-> cs.gitPatch.baseCommitId]

\* the first artifact that has a changeSet, None when there is none
RECURSIVE FirstChangeSet(_, _)
FirstChangeSet(artifacts, k) ==
    IF k > Len(artifacts) THEN None
    ELSE IF artifacts[k].changeSet # None THEN artifacts[k].changeSet
    ELSE FirstChangeSet(artifacts, k + 1)

\* line 705: the key parse_activity stores under: the session's "id" when the session
\* was fetched, else what comes before "/activities/" in the activity's name
CompletedSessionId(activity, session_data) ==
    IF session_data # None THEN session_data[1].id
    ELSE LET k == FindSub(activity.name, "/activities/", 1)
         IN  Some(IF k = 0 THEN activity.name ELSE Before(activity.name, k))

\* parse_activity, lines 702-729: what a sessionCompleted activity does to the cache
ParseActivityStore(c, activity, session_data) ==
    LET session_id == CompletedSessionId(activity, session_data)
        change_set == FirstChangeSet(OrDefault(activity.artifacts, <<>>), 1)
    IN  IF activity.sessionCompleted /\ change_set # None /\ Truthy(session_id)
        THEN CachePut(c, session_id[1], DataOf(change_set[1]))
        ELSE c

\* lines 338-350: the loop over reversed(activities), from activity k down
RECURSIVE Rederive(_, _, _, _)
Rederive(c, session_id, activities, k) ==
    IF k = 0 THEN c
    ELSE LET a == activities[k]
             change_set == FirstChangeSet(OrDefault(a.artifacts, <<>>), 1)
             c1 == IF (a.sessionCompleted \/ a.artifacts # None) /\ change_set # None
                   THEN CachePut(c, session_id, DataOf(change_set[1]))
                   ELSE c
         IN  IF session_id \in DOMAIN c1 THEN c1
             ELSE Rederive(c1, session_id, activities, k - 1)

\* faulty variant: a failed fetch from the agent API is not caught
RederiveRaisesAlways(outcome) == outcome # "ok"

\* lines 333-352: is an exception of get_session / list_activities propagated?
\* (`except Exception` prints it and goes on)
RederiveRaises(outcome) == FALSE

\* faulty variant: the entry is taken out of the cache
EntryReadPop(c, session_id) == CacheDel(c, session_id)

\* line 361: data = completed_session_data[session_id] reads the entry; the cache after it
EntryRead(c, session_id) == c

\* lines 377-385: the arguments create_pr_from_patch is called with
PipelineArgs(data, parts, base_branch, branch_only) ==
    [sections |-> <<>>,     \* the server does not know how the patch was written
     owner |-> parts[1], repo |-> parts[2], patch |-> data.patch,
     commit_message |-> data.commit_message, base_branch |-> base_branch,
     base_commit_id |-> OrDefault(data.base_commit_id, ""),
     branch_only |-> branch_only]

\* what the remote agent API holds
ChangeSetSections == <<Sec("modify", "a.txt", <<"new2">>)>>

GitPatches ==
    { [unidiffPatch |-> PatchText(ChangeSetSections),
       suggestedCommitMessage |-> Some("Fix bug"), baseCommitId |-> None],
      [unidiffPatch |-> "", suggestedCommitMessage |-> None, baseCommitId |-> Some("abc123")] }

ChangeSets ==
    { [source |-> "sources/github/owner/repo", gitPatch |-> g] : g \in GitPatches }
    \cup { [source |-> "sources/github/owner", gitPatch |-> g] :
             g \in {h \in GitPatches : h.unidiffPatch # ""} }

\* the activities of session s, oldest first: a progress note, then the completion
Activities(s) ==
    << [name |-> NameOf(s) \o "/activities/a0", sessionCompleted |-> FALSE,
        artifacts |-> None],
       [name |-> NameOf(s) \o "/activities/a1", sessionCompleted |-> TRUE,
        artifacts |-> IF jules[s].change_set = None THEN None
                      ELSE Some(<<[changeSet |-> None],
                                  [changeSet |-> jules[s].change_set]>>)] >>

\* what get_session returned to the caller of parse_activity: nothing (the fetch
\* failed or was not made), or the session with its raw id
SessionDatas(s) == {None, Some([id |-> Some(s)])}

\* the agent API answers for a session it holds, asked by its resource name
JulesAnswers(session_id, outcome) ==
    outcome = "ok" => \E s \in DOMAIN jules : jules[s].exists /\ session_id = NameOf(s)

NewReq ==
    [kind |-> "none", session_id |-> "", base_branch |-> "", branch_only |-> FALSE,
     pc |-> "idle", hit |-> "unchecked", status |-> 0, inv |-> 0]
\* hit tells how line 355 found the entry: "cached" (it was there at line 331),
\* "derived" (after the search of the activities), "late" (after a failed fetch),
\* or "miss"

Respond(q, status) == [q EXCEPT !.pc = "done", !.status = status]

\* requests arrive in the order of their numbers
MayStart(r) == req[r].pc = "idle" /\ (r > 1 => req[r - 1].pc # "idle")

InitCache ==
    /\ now = 0
    /\ args = <<>>
    /\ inv = <<>>
    /\ calls = <<>>
    /\ refs = {}
    /\ pulls = 0
    /\ PatchOff
    /\ github_token \in BOOLEAN
    /\ \E cs \in {None} \cup {Some(x) : x \in ChangeSets} :
         jules = [s \in {SessionRaw} |-> [exists |-> TRUE, change_set |-> cs]]
    /\ completed_session_data = EmptyCache
    /\ req = [r \in Requests |-> NewReq]
    /\ PollOff

\* a poller of the session sees its completion and hands it to parse_activity
ObserveCompleted ==
    /\ \E s \in DOMAIN jules : \E session_data \in SessionDatas(s) :
         /\ jules[s].exists
         /\ completed_session_data' =
                ParseActivityStore(completed_session_data, Activities(s)[2], session_data)
         /\ completed_session_data' # completed_session_data
    /\ UNCHANGED <<github_token, jules, req, buildVars, patchVars, pollVars>>

\* delete_session, lines 148-177
DeleteSession(r) ==
    /\ MayStart(r)
    /\ \E given \in KeysAsked, outcome \in Outcomes :
         LET session_id == NormalisedId(given)
             accepted == outcome = "ok"     \* status 200 or 204
         IN  /\ JulesAnswers(session_id, outcome)
             /\ jules' = IF accepted THEN [jules EXCEPT ![RawOf(session_id)].exists = FALSE]
                         ELSE jules
             /\ completed_session_data' =
                    IF accepted /\ session_id \in DOMAIN completed_session_data
                    THEN CacheDel(completed_session_data, session_id)
                    ELSE completed_session_data
             /\ req' = [req EXCEPT ![r] =
                          Respond([NewReq EXCEPT !.kind = "delete", !.session_id = given],
                                  IF accepted THEN 200
                                  ELSE IF outcome = "status" THEN 404 ELSE 500)]
    /\ UNCHANGED <<github_token, buildVars, patchVars, pollVars>>

\* create_github_pr, lines 355-388 up to its await: the entry c holds for the
\* request q decides between a refusal and the call of create_pr_from_patch
Proceed(r, q, c, how) ==
    IF q.session_id \notin DOMAIN c
    THEN /\ req' = [req EXCEPT ![r] = Respond([q EXCEPT !.hit = "miss"], 404)]
         /\ completed_session_data' = c
         /\ UNCHANGED <<args, inv, calls>>
    ELSE LET data == c[q.session_id]
             parts == SourceParts(data.source)
         IN  IF data.patch = "" \/ Len(parts) < 2
             THEN /\ req' = [req EXCEPT ![r] = Respond([q EXCEPT !.hit = how], 400)]
                  /\ completed_session_data' = EntryRead(c, q.session_id)
                  /\ UNCHANGED <<args, inv, calls>>
             ELSE /\ args' = Append(args, PipelineArgs(data, parts, q.base_branch,
                                                       q.branch_only))
                  /\ inv' = Append(inv, IdleInv)
                  /\ calls' = Append(calls, <<>>)
                  /\ completed_session_data' = EntryRead(c, q.session_id)
                  /\ req' = [req EXCEPT ![r] = [q EXCEPT !.hit = how, !.pc = "pipeline",
                                                         !.inv = Len(args) + 1]]

\* the publish requests ask for a pull request (the query's default)
PublishBranchOnly == {FALSE}

\* the client sends a publish request after the answer to its last one
NoPublishRunning == \A o \in Requests : req[o].kind = "publish" => req[o].pc = "done"

\* create_github_pr, lines 322-333: the token, then the look into the cache
PublishStart(r) ==
    /\ MayStart(r)
    /\ \E given \in KeysAsked, branch_only \in PublishBranchOnly :
         LET q == [NewReq EXCEPT !.kind = "publish", !.session_id = given,
                                 !.base_branch = "main", !.branch_only = branch_only]
         IN  IF ~github_token
             THEN /\ req' = [req EXCEPT ![r] = Respond(q, 500)]
                  /\ UNCHANGED <<completed_session_data, args, inv, calls>>
             ELSE IF given \in DOMAIN completed_session_data
             THEN Proceed(r, q, completed_session_data, "cached")
             ELSE /\ req' = [req EXCEPT ![r] = [q EXCEPT !.pc = "get_session"]]
                  /\ UNCHANGED <<completed_session_data, args, inv, calls>>
    /\ UNCHANGED <<github_token, jules, now, refs, pulls, patchVars, pollVars>>

\* line 334: session_data = await client.get_session(session_id)
PublishGetSession(r) ==
    /\ req[r].pc = "get_session"
    /\ \E outcome \in Outcomes :
         /\ JulesAnswers(req[r].session_id, outcome)
         /\ IF outcome = "ok"
            THEN /\ req' = [req EXCEPT ![r].pc = "list_activities"]
                 /\ UNCHANGED <<completed_session_data, args, inv, calls>>
            ELSE IF RederiveRaises(outcome)
            THEN /\ req' = [req EXCEPT ![r] = Respond(req[r], 500)]
                 /\ UNCHANGED <<completed_session_data, args, inv, calls>>
            ELSE Proceed(r, req[r], completed_session_data, "late")
    /\ UNCHANGED <<github_token, jules, now, refs, pulls, patchVars, pollVars>>

\* lines 335-352: activities = await client.list_activities(session_id), and the search
PublishListActivities(r) ==
    /\ req[r].pc = "list_activities"
    /\ \E outcome \in Outcomes :
         /\ JulesAnswers(req[r].session_id, outcome)
         /\ IF outcome = "ok"
            THEN Proceed(r, req[r], Rederive(completed_session_data, req[r].session_id,
                                             Activities(RawOf(req[r].session_id)),
                                             Len(Activities(RawOf(req[r].session_id)))),
                         "derived")
            ELSE IF RederiveRaises(outcome)
            THEN /\ req' = [req EXCEPT ![r] = Respond(req[r], 500)]
                 /\ UNCHANGED <<completed_session_data, args, inv, calls>>
            ELSE Proceed(r, req[r], completed_session_data, "late")
    /\ UNCHANGED <<github_token, jules, now, refs, pulls, patchVars, pollVars>>

\* lines 376-388: create_pr_from_patch has returned or raised
PublishReturn(r) ==
    /\ req[r].pc = "pipeline"
    /\ inv[req[r].inv].pc = "done"
    /\ req' = [req EXCEPT ![r] =
                 Respond(req[r], IF inv[req[r].inv].result.kind = "raise" THEN 500 ELSE 200)]
    /\ UNCHANGED <<github_token, jules, completed_session_data, buildVars, patchVars, pollVars>>

NextCache ==
    \/ ObserveCompleted
    \/ \E r \in Requests : DeleteSession(r)
    \/ \E r \in Requests : NoPublishRunning /\ PublishStart(r)
    \/ \E r \in Requests : PublishGetSession(r)
    \/ \E r \in Requests : PublishListActivities(r)
    \/ \E r \in Requests : PublishReturn(r)
    \/ \E i \in Invocations : Begin(i)
    \/ \E i \in Invocations : GetRef(i)
    \/ \E i \in Invocations : GetCommit(i)
    \/ \E i \in Invocations : FetchContent(i)
    \/ \E i \in Invocations : CreateBlob(i)
    \/ \E i \in Invocations : CreateTree(i)
    \/ \E i \in Invocations : CreateCommit(i)
    \/ \E i \in Invocations : CreateRef(i)
    \/ \E i \in Invocations : CreatePull(i)

SpecCache == InitCache /\ [][NextCache]_vars

(***************************************************************************)
(* Two sessions, each with its change set, on a server with a token: the   *)
(* requests of the clients are not held back, so that two publish requests *)
(* overlap each other as well as the deletes and the completion events.    *)
(* The patches hold no file change, so that create_pr_from_patch ends at   *)
(* its line 158 and the interleavings are those of the handlers' awaits.   *)
(***************************************************************************)
OtherRaw == "456"

\* the change set of each session (they differ in message and base commit)
ChangeSetOf(s) ==
    [source |-> "sources/github/owner/repo",
     gitPatch |-> [unidiffPatch |-> PatchText(<<Sec("text", "", <<"not a diff">>)>>),
                   suggestedCommitMessage |-> IF s = SessionRaw THEN Some("Fix bug") ELSE None,
                   baseCommitId |-> IF s = SessionRaw THEN None ELSE Some("abc123")]]

InitSessions ==
    /\ now = 0
    /\ args = <<>>
    /\ inv = <<>>
    /\ calls = <<>>
    /\ refs = {}
    /\ pulls = 0
    /\ PatchOff
    /\ github_token = TRUE
    /\ jules = [s \in {SessionRaw, OtherRaw} |->
                  [exists |-> TRUE, change_set |-> Some(ChangeSetOf(s))]]
    /\ completed_session_data = EmptyCache
    /\ req = [r \in Requests |-> NewReq]
    /\ PollOff

NextSessions ==
    \/ ObserveCompleted
    \/ \E r \in Requests : DeleteSession(r)
    \/ \E r \in Requests : PublishStart(r)
    \/ \E r \in Requests : PublishGetSession(r)
    \/ \E r \in Requests : PublishListActivities(r)
    \/ \E r \in Requests : PublishReturn(r)
    \/ \E i \in Invocations : Begin(i)

SpecSessions == InitSessions /\ [][NextSessions]_vars


(***************************************************************************)
(* notifications.py: SessionPoller.  main.py line 51 makes one poller and  *)
(* line 56 starts its one polling loop; the websocket handler (main.py     *)
(* lines 476, 570) calls track_session with the user_id and the session    *)
(* id its client gave.  poll_once is suspended at `await get_session` and  *)
(* at `await list_activities`; notify_* has no suspending await in it.     *)
(***************************************************************************)
Users == {"u1", "u2"}
SessionIds == {"s1", "s2"}
MaxPolls == 2

\* the states the remote agent reports for a session
RemoteStates == {"IN_PROGRESS", "WAITING_FOR_USER", "DONE", "FAILED"}

\* a dict that keeps its keys in insertion order, as a sequence of items
DictKeys(d) == {d[k].session_id : k \in DOMAIN d}

DictSet(d, item) ==
    IF item.session_id \in DictKeys(d)
    THEN [k \in DOMAIN d |-> IF d[k].session_id = item.session_id THEN item ELSE d[k]]
    ELSE Append(d, item)

DictDel(d, session_id) == SelectSeq(d, LAMBDA e : e.session_id # session_id)

DictSetState(d, session_id, state) ==
    [k \in DOMAIN d |-> IF d[k].session_id = session_id THEN [d[k] EXCEPT !.state = state] ELSE d[k]]

\* list.remove: the first occurrence goes
ListRemove(l, x) ==
    LET k == CHOOSE j \in DOMAIN l : l[j] = x /\ \A m \in 1..(j - 1) : l[m] # x
    IN  SubSeq(l, 1, k - 1) \o SubSeq(l, k + 1, Len(l))

ListHas(l, x) == \E k \in DOMAIN l : l[k] = x

IdlePoll == [pc |-> "idle", n |-> 0, items |-> <<>>, k |-> 0, current_state |-> ""]

\* the for loop of line 163 goes to its next item, or poll_once returns
NextItem(p) ==
    IF p.k < Len(p.items)
    THEN [p EXCEPT !.pc = "get", !.k = p.k + 1, !.current_state = ""]
    ELSE [p EXCEPT !.pc = "idle", !.items = <<>>, !.k = 0, !.current_state = ""]

Note(type, user_id, session_id, has_pr) ==
    [type |-> type, user_id |-> user_id, session_id |-> session_id, has_pr |-> has_pr]

InitPoller ==
    /\ BuildOff
    /\ PatchOff
    /\ CacheOff
    /\ active_sessions = <<>>
    /\ user_sessions = [u \in {} |-> <<>>]
    /\ notified = <<>>
    /\ poll = IdlePoll

\* track_session, lines 153-159
TrackSession(user_id, session_id) ==
    LET lists == [u \in DOMAIN user_sessions \cup {user_id} |->
                    IF u \in DOMAIN user_sessions THEN user_sessions[u] ELSE <<>>]
    IN  /\ IF ~ListHas(lists[user_id], session_id)
           THEN /\ user_sessions' = [lists EXCEPT ![user_id] = Append(@, session_id)]
                /\ active_sessions' =
                       DictSet(active_sessions,
                               [session_id |-> session_id, user_id |-> user_id, state |-> None])
           ELSE /\ user_sessions' = lists
                /\ UNCHANGED active_sessions
        /\ UNCHANGED <<notified, poll, buildVars, patchVars, cacheVars>>

\* poll_once, line 163: the items of active_sessions are listed, and the first
\* get_session is awaited
PollOnce ==
    /\ poll.pc = "idle"
    /\ poll.n < MaxPolls
    /\ poll' = NextItem([poll EXCEPT !.n = poll.n + 1, !.items = active_sessions, !.k = 0])
    /\ UNCHANGED <<active_sessions, user_sessions, notified, buildVars, patchVars, cacheVars>>

\* lines 177-184, after _handle_state_change returned or was not called; a
\* KeyError or ValueError is caught at line 186 with what was done before it kept
AfterChange(changed, user_id, session_id, current_state) ==
    LET tracked == session_id \in DictKeys(active_sessions)
        a1 == IF changed /\ tracked
              THEN DictSetState(active_sessions, session_id, Some(current_state))
              ELSE active_sessions
        raised177 == changed /\ ~tracked
        done == current_state \in {"DONE", "FAILED"}
    IN  /\ active_sessions' = IF ~raised177 /\ done THEN DictDel(a1, session_id) ELSE a1
        /\ user_sessions' =
               IF /\ ~raised177
                  /\ done
                  /\ tracked
                  /\ user_id \in DOMAIN user_sessions
                  /\ ListHas(user_sessions[user_id], session_id)
               THEN [user_sessions EXCEPT ![user_id] = ListRemove(@, session_id)]
               ELSE user_sessions
        /\ poll' = NextItem(poll)

\* poll_once, lines 165-184: `await get_session` returns or raises
PollGetSession ==
    /\ poll.pc = "get"
    /\ LET item == poll.items[poll.k]
           user_id == item.user_id
           session_id == item.session_id
           last_state == item.state
       IN  \E outcome \in {"ok", "exc"} : \E current_state \in RemoteStates : \E has_pr \in BOOLEAN :
             IF outcome = "exc"
             THEN /\ poll' = NextItem(poll)
                  /\ UNCHANGED <<active_sessions, user_sessions, notified>>
             ELSE IF Some(current_state) # last_state /\ current_state = "WAITING_FOR_USER"
             THEN \* _handle_state_change awaits list_activities, line 200
                  /\ poll' = [poll EXCEPT !.pc = "activities", !.current_state = current_state]
                  /\ UNCHANGED <<active_sessions, user_sessions, notified>>
             ELSE /\ notified' =
                         IF Some(current_state) # last_state /\ current_state = "DONE"
                         THEN Append(notified, Note("task_complete", user_id, session_id, has_pr))
                         ELSE notified
                  /\ AfterChange(Some(current_state) # last_state,
                                 user_id, session_id, current_state)
    /\ UNCHANGED <<buildVars, patchVars, cacheVars>>

\* _handle_state_change, lines 200-211: `await list_activities` returns or raises
PollListActivities ==
    /\ poll.pc = "activities"
    /\ LET item == poll.items[poll.k]
       IN  \E outcome \in {"ok", "exc"} : \E plan \in BOOLEAN :
             IF outcome = "exc"
             THEN /\ poll' = NextItem(poll)
                  /\ UNCHANGED <<active_sessions, user_sessions, notified>>
             ELSE /\ notified' =
                         Append(notified,
                                Note(IF plan THEN "plan_ready" ELSE "needs_input",
                                     item.user_id, item.session_id, FALSE))
                  /\ AfterChange(TRUE, item.user_id, item.session_id, poll.current_state)
    /\ UNCHANGED <<buildVars, patchVars, cacheVars>>

NextPoller ==
    \/ \E user_id \in Users : \E session_id \in SessionIds : TrackSession(user_id, session_id)
    \/ PollOnce
    \/ PollGetSession
    \/ PollListActivities

SpecPoller == InitPoller /\ [][NextPoller]_vars


(***************************************************************************)
(* Properties.                                                             *)
(***************************************************************************)
Began(i) == inv[i].pc # "idle"

HasCall(i, op, path) ==
    \E k \in DOMAIN calls[i] : calls[i][k].op = op /\ calls[i][k].path = path

\* C1: a patch for a created file in standard unidiff order (--- /dev/null, +++ b/P,
\* a hunk header, only + lines) parses to a FileChange for P with is_new = TRUE and
\* added_lines = the + lines without their prefix, and the content of the blob made
\* for P is added_lines joined by newline.
C1_CreatedFileIsNew ==
    \A i \in Invocations :
        (Began(i) /\ Len(args[i].sections) = 1 /\ args[i].sections[1].kind = "create") =>
            LET sec == args[i].sections[1]
                fcs == inv[i].file_changes
            IN  /\ HasKey(fcs.order, sec.path)
                /\ Entry(fcs, sec.path).is_new
                /\ Entry(fcs, sec.path).added_lines = sec.lines
                /\ \A k \in DOMAIN calls[i] :
                     (calls[i][k].op = "post_blob" /\ calls[i][k].path = sec.path)
                        => calls[i][k].data = Join(sec.lines)

\* C3: when the patch has a section that deletes P (--- a/P, +++ /dev/null), the call
\* is not refused for want of file changes, every tree-creation request carries the
\* tombstone {path P, mode 100644, sha null}, and no blob is created for P.
C3_DeletionYieldsTombstone ==
    \A i \in Invocations :
        \A n \in 1..Len(args[i].sections) :
            (Began(i) /\ args[i].sections[n].kind = "delete") =>
                LET P == args[i].sections[n].path
                IN  /\ ~HasCall(i, "post_blob", P)
                    /\ ~(inv[i].result.kind = "raise" /\ inv[i].result.error = "ValueError")
                    /\ \A k \in DOMAIN calls[i] :
                         calls[i][k].op = "post_tree" =>
                            \E m \in DOMAIN calls[i][k].data.tree :
                                calls[i][k].data.tree[m] = Tombstone(P)

\* C4: for every FileChange of the parsed map with is_deleted = TRUE, whatever its
\* other fields, no base content is fetched and no blob is created for its path, and
\* once the loop has passed it the pending tree entries hold exactly one entry for
\* the path, the tombstone.
C4_DeletedNeverBlob ==
    \A i \in Invocations :
        \A k \in 1..Len(inv[i].file_changes.order) :
            inv[i].file_changes.fc[k].is_deleted =>
                LET P == inv[i].file_changes.order[k]
                    items == inv[i].tree_items
                IN  /\ ~HasCall(i, "get_contents", P)
                    /\ ~HasCall(i, "post_blob", P)
                    /\ inv[i].idx > k =>
                         /\ Cardinality({m \in DOMAIN items : items[m].path = P}) = 1
                         /\ \E m \in DOMAIN items : items[m] = Tombstone(P)

\* the calls whose failure the claim C5 names
FatalOps == {"get_ref", "get_commit", "post_blob", "post_tree", "post_commit", "post_ref"}

\* reads, and creations of new objects: no delete, no update
ReadOrCreateOps ==
    {"get_ref", "get_commit", "get_contents", "post_blob", "post_tree", "post_commit",
     "post_ref", "post_pull"}

\* C5: when base resolution, a blob, the tree, the commit or the ref fails, the call
\* raises that error, the failed call is the last remote call of the invocation, and
\* no call ever deletes or updates an object.
C5_FailureAborts ==
    \A i \in Invocations :
        \A k \in DOMAIN calls[i] :
            LET c == calls[i][k]
            IN  /\ c.op \in ReadOrCreateOps
                /\ (c.op \in FatalOps /\ c.outcome # "ok") =>
                     /\ k = Len(calls[i])
                     /\ inv[i].pc = "done"
                     /\ inv[i].result = [kind |-> "raise", error |-> ErrorOf(c.outcome),
                                         step |-> c.op]

\* a commit creation answered with an error status after a blob had been created
C5_Witness ==
    \E i \in Invocations :
        \E k \in DOMAIN calls[i] :
            /\ calls[i][k].op = "post_commit" /\ calls[i][k].outcome = "status"
            /\ \E m \in 1..(k - 1) : calls[i][m].op = "post_blob"
            /\ inv[i].result.kind = "raise"

\* C6: a failed base-content fetch (another status than 200, or an exception) is
\* not raised: the content of the file is added_lines joined by newline, the next
\* remote call is the blob creation for that path with that content, and a created
\* blob gets its tree entry.
C6_FetchFailureAbsorbed ==
    \A i \in Invocations :
        \A k \in DOMAIN calls[i] :
            LET c == calls[i][k]
                want == Join(Entry(inv[i].file_changes, c.path).added_lines)
            IN  (c.op = "get_contents" /\ c.outcome # "ok") =>
                    /\ ~(inv[i].result.kind = "raise" /\ inv[i].result.step = "get_contents")
                    /\ k = Len(calls[i]) =>
                         inv[i].pc = "blob" /\ inv[i].new_content = want
                    /\ k < Len(calls[i]) =>
                         /\ calls[i][k + 1].op = "post_blob"
                         /\ calls[i][k + 1].path = c.path
                         /\ calls[i][k + 1].data = want
                         /\ calls[i][k + 1].outcome = "ok" =>
                              \E m \in DOMAIN inv[i].tree_items :
                                  inv[i].tree_items[m] = BlobItem(c.path, BlobSha(want))

\* a fetch failed and the call went on to create the ref and returned
C6_Witness ==
    \E i \in Invocations :
        /\ \E k \in DOMAIN calls[i] :
               calls[i][k].op = "get_contents" /\ calls[i][k].outcome # "ok"
        /\ \E k \in DOMAIN calls[i] :
               calls[i][k].op = "post_ref" /\ calls[i][k].outcome = "ok"
        /\ inv[i].result.kind = "return"

\* C7: two invocations that begin within the same wall-clock second use distinct
\* branch names (the code has no retry with a later name to fall back on).
C7_DistinctBranchNames ==
    \A i, j \in Invocations :
        (i # j /\ Began(i) /\ Began(j) /\ inv[i].timestamp = inv[j].timestamp)
            => inv[i].branch_name # inv[j].branch_name

\* place of a call in the chain: the stage, then the file, then fetch before blob
Stage(op) ==
    CASE op = "get_ref" -> 1 [] op = "get_commit" -> 2 [] op = "get_contents" -> 3
      [] op = "post_blob" -> 3 [] op = "post_tree" -> 4 [] op = "post_commit" -> 5
      [] op = "post_ref" -> 6 [] op = "post_pull" -> 7

OrderKey(i, c) ==
    Stage(c.op) * 1000
    + (IF Stage(c.op) = 3 THEN 10 * KeyIndex(inv[i].file_changes.order, c.path, 1) ELSE 0)
    + (IF c.op = "post_blob" THEN 1 ELSE 0)

\* the calls of invocation i are in chain order, each stage once, and each stage
\* follows the stage it needs
ChainOrder(i) ==
    LET cs == calls[i]
    IN  /\ \A k \in 2..Len(cs) : OrderKey(i, cs[k - 1]) < OrderKey(i, cs[k])
        /\ \A k \in DOMAIN cs :
             /\ cs[k].op = "get_ref" => (k = 1 /\ args[i].base_commit_id = "")
             /\ cs[k].op = "get_commit" =>
                  \/ k = 1 /\ args[i].base_commit_id # ""
                  \/ k = 2 /\ cs[1].op = "get_ref"
             /\ Stage(cs[k].op) = 3 =>
                  /\ \E m \in 1..(k - 1) : cs[m].op = "get_commit"
                  /\ HasKey(inv[i].file_changes.order, cs[k].path)
             /\ cs[k].op = "post_tree" =>
                  /\ \E m \in 1..(k - 1) : cs[m].op = "get_commit"
                  \* every path of the map has its entry, in map order
                  /\ [m \in DOMAIN cs[k].data.tree |-> cs[k].data.tree[m].path]
                        = inv[i].file_changes.order
                  \* every blob the tree names was created before
                  /\ \A m \in DOMAIN cs[k].data.tree :
                       cs[k].data.tree[m].sha # None =>
                         \E b \in 1..(k - 1) :
                            /\ cs[b].op = "post_blob" /\ cs[b].outcome = "ok"
                            /\ cs[b].path = cs[k].data.tree[m].path
             /\ cs[k].op = "post_commit" => (k > 1 /\ cs[k - 1].op = "post_tree")
             /\ cs[k].op = "post_ref" => (k > 1 /\ cs[k - 1].op = "post_commit")
             /\ cs[k].op = "post_pull" =>
                  (k > 1 /\ cs[k - 1].op = "post_ref" /\ ~args[i].branch_only)

\* C8 as stated: the calls form the chain, and each call is issued only after the
\* previous one has succeeded.
C8_EachAfterSuccess ==
    \A i \in Invocations :
        /\ ChainOrder(i)
        /\ \A k \in 2..Len(calls[i]) : calls[i][k - 1].outcome = "ok"

\* C8 amended: the calls form the chain, and each call is issued only after the
\* previous one has returned and, unless that one was a base-content fetch, succeeded.
C8_SequentialChain ==
    \A i \in Invocations :
        /\ ChainOrder(i)
        /\ \A k \in 2..Len(calls[i]) :
             calls[i][k - 1].outcome = "ok" \/ calls[i][k - 1].op = "get_contents"

\* a whole chain for two files: fetch, blob, blob, tree, commit, ref, pull request
C8_Witness ==
    \E i \in Invocations :
        /\ inv[i].result.kind = "return" /\ inv[i].result.type = "pr"
        /\ Cardinality({k \in DOMAIN calls[i] : calls[i][k].op = "post_blob"}) = 2
        /\ \E k \in DOMAIN calls[i] : calls[i][k].op = "get_contents"

\* C9: with branch_only the call issues no pull-request creation, and once the ref
\* is created it returns type "branch", the branch name, its URL and the title.
C9_BranchOnly ==
    \A i \in Invocations :
        args[i].branch_only =>
            /\ \A k \in DOMAIN calls[i] : calls[i][k].op # "post_pull"
            /\ \A k \in DOMAIN calls[i] :
                 (calls[i][k].op = "post_ref" /\ calls[i][k].outcome = "ok") =>
                    /\ inv[i].pc = "done"
                    /\ inv[i].result =
                          [kind |-> "return", success |-> TRUE, type |-> "branch",
                           branch |-> inv[i].branch_name,
                           branch_url |-> BranchUrl(inv[i].branch_name),
                           title |-> Split(args[i].commit_message)[1]]
                    /\ calls[i][k].data.ref = "refs/heads/" \o inv[i].result.branch

\* a branch-only call that returned
C9_Witness ==
    \E i \in Invocations :
        /\ args[i].branch_only
        /\ inv[i].result.kind = "return"
        /\ \E k \in DOMAIN calls[i] : calls[i][k].op = "post_ref"

\* C10: a patch that parses to the empty change set is refused with the
\* "no file changes" error before any remote call.
C10_EmptyRefused ==
    \A i \in Invocations :
        (Began(i) /\ inv[i].file_changes.order = <<>>) =>
            /\ inv[i].pc = "done"
            /\ inv[i].result = [kind |-> "raise", error |-> "ValueError", step |-> "parse"]
            /\ calls[i] = <<>>

\* a patch with text in it was refused
C10_Witness ==
    \E i \in Invocations :
        /\ Began(i)
        /\ inv[i].file_changes.order = <<>>
        /\ args[i].sections # <<>>
        /\ inv[i].result.kind = "raise"

\* C2: a unified diff from A to B, parsed and applied to A, gives B.
C2_RoundTrip ==
    (ppc = "applied" /\ src.kind = "diff") => applied = src.B

\* C11: in every map _parse_patch returns, no FileChange has both is_new and
\* is_deleted set.
C11_FlagsExclusive ==
    ppc = "parsed" =>
        \A k \in DOMAIN parsed.fc : ~(parsed.fc[k].is_new /\ parsed.fc[k].is_deleted)

\* C12: _parse_patch returns a map for every text and never raises, and the empty
\* text gives the empty map.
C12_ParseNeverRaises ==
    /\ ppc # "raised"
    /\ (ppc = "parsed" /\ patch = "") => parsed = EmptyChanges

PublishOf(r) == req[r].kind = "publish"

\* no form of the session's id is a key of the cache
NothingPending == \A k \in KeyForms : k \notin DOMAIN completed_session_data

PublishStep(r) ==
    /\ req'[r].kind = "publish"
    /\ \/ req'[r] # req[r]
       \/ (req[r].inv # 0 /\ (inv'[req[r].inv] # inv[req[r].inv]))

\* the part of the pipeline's arguments that comes from the cache
FromCache(a) ==
    [owner |-> a.owner, repo |-> a.repo, patch |-> a.patch,
     commit_message |-> a.commit_message, base_commit_id |-> a.base_commit_id]

\* C14: a step of a publish request for a session whose change set is in the cache
\* leaves the cache as it is, whether the pipeline succeeds or fails; and two publish
\* requests for the same key run the pipeline with the same owner/repo (source), patch,
\* commit message and base commit, which are those of the cached entry.
C14_PublishKeepsEntry ==
    /\ [][\A r \in Requests :
            (PublishStep(r) /\ req'[r].session_id \in DOMAIN completed_session_data)
                => completed_session_data' = completed_session_data]_vars
    /\ [](\A r1, r2 \in Requests :
            (PublishOf(r1) /\ PublishOf(r2) /\ req[r1].inv # 0 /\ req[r2].inv # 0
             /\ req[r1].session_id = req[r2].session_id)
                => /\ FromCache(args[req[r1].inv]) = FromCache(args[req[r2].inv])
                   /\ req[r1].session_id \in DOMAIN completed_session_data
                        => LET data == completed_session_data[req[r1].session_id]
                               a == args[req[r1].inv]
                           IN  /\ a.patch = data.patch
                               /\ a.commit_message = data.commit_message
                               /\ a.base_commit_id = OrDefault(data.base_commit_id, "")
                               /\ <<a.owner, a.repo>> = SubSeq(SourceParts(data.source), 1, 2))

\* a publish whose pipeline failed, then a publish from the cached entry whose pipeline
\* succeeded, the entry still there
C14_Witness ==
    /\ PublishOf(1) /\ req[1].pc = "done" /\ req[1].inv # 0 /\ req[1].status = 500
    /\ PublishOf(2) /\ req[2].pc = "done" /\ req[2].hit = "cached" /\ req[2].status = 200
    /\ req[1].session_id = req[2].session_id
    /\ req[2].session_id \in DOMAIN completed_session_data

\* the session has no change set to publish for request r: the remote holds none (so
\* none is ever cached), or line 355 found no entry after the attempt to derive one
NothingToPublish(r) == jules[SessionRaw].change_set = None \/ req[r].hit = "miss"

\* C15 as claimed: a publish request for a session with no cached and no derivable
\* change set is answered with 404 and calls create_pr_from_patch not at all.
C15_NotFound ==
    \A r \in Requests :
        (PublishOf(r) /\ req[r].pc = "done" /\ NothingToPublish(r))
            => req[r].status = 404 /\ req[r].inv = 0

\* C15, amended: the same on a server whose GITHUB_TOKEN is set.
C15_NotFoundWithToken ==
    \A r \in Requests :
        (github_token /\ PublishOf(r) /\ req[r].pc = "done" /\ NothingToPublish(r))
            => req[r].status = 404 /\ req[r].inv = 0

\* the remote holds a change set, but the fetch failed and nothing was cached
C15_Witness ==
    \E r \in Requests :
        /\ github_token /\ PublishOf(r) /\ req[r].pc = "done"
        /\ jules[SessionRaw].change_set # None /\ req[r].hit = "miss"
        /\ req[r].status = 404 /\ req[r].inv = 0 /\ args = <<>>

\* invocation i has returned a result
Returned(i) == inv[i].pc = "done" /\ inv[i].result.kind = "return"

\* C16: create_pr_from_patch only creates branch refs (a ref the repository holds is
\* never changed or removed, and no name is held twice), and a call that starts, with
\* the same arguments, at a later reading of the clock than a call that has returned
\* takes a different branch name.
C16_RerunMakesNewBranch ==
    /\ [][refs \subseteq refs']_vars
    /\ [](\A r1, r2 \in refs : r1.ref = r2.ref => r1 = r2)
    /\ [][\A i, j \in Invocations :
            (i # j /\ args[i] = args[j] /\ Returned(i)
             /\ inv[j].pc = "idle" /\ inv'[j].pc # "idle" /\ now > inv[i].started[1])
                => inv'[j].branch_name # inv[i].branch_name]_vars

\* the call raised instead of answering: a timeout (60 s, line 160) or a transport error
TimedOut(c) == c.outcome = "exc"

\* C17 as claimed: an invocation one of whose remote calls timed out, the base-content
\* fetch included, ends as failed and returns no result.
C17_AnyTimeoutFails ==
    \A i \in Invocations : \A k \in DOMAIN calls[i] :
        TimedOut(calls[i][k])
            => inv[i].pc = "done" /\ inv[i].result.kind = "raise" /\ k = Len(calls[i])

\* C17, amended: the same for every remote call but the base-content fetch, whose
\* timeout is absorbed.
C17_TimeoutFails ==
    \A i \in Invocations : \A k \in DOMAIN calls[i] :
        (TimedOut(calls[i][k]) /\ calls[i][k].op # "get_contents")
            => inv[i].pc = "done" /\ inv[i].result.kind = "raise" /\ k = Len(calls[i])

\* the pull-request creation timed out after the branch was made
C17_Witness ==
    \E i \in Invocations :
        /\ calls[i] # <<>>
        /\ calls[i][Len(calls[i])].op = "post_pull"
        /\ TimedOut(calls[i][Len(calls[i])])
        /\ inv[i].result.kind = "raise"
        /\ \E r \in refs : r.ref = "refs/heads/" \o inv[i].branch_name

\* the FileChange that was applied
Applied == ppc = "applied" /\ src.kind = "change"

TheChange == Entry(parsed, src.path)

\* C18: for a FileChange without hunks the result is added_lines joined by newline,
\* whatever the original is.
C18_NoHunksJoinsAdded ==
    (Applied /\ TheChange.hunks = <<>>) => applied = Join(TheChange.added_lines)

\* added lines that are not the original's, and they are the result
C18_Witness ==
    /\ Applied /\ TheChange.hunks = <<>>
    /\ TheChange.added_lines = <<"a", "c">>
    /\ original = "b\nb\nb"
    /\ applied = "a\nc"

\* the old side of a hunk (its Context and Remove lines) and its new side (Context and Add)
OldSide(hunk) ==
    Unwrap(SelectSeq([k \in DOMAIN hunk.lines |->
                         IF hunk.lines[k][1] \in {"context", "remove"}
                         THEN <<hunk.lines[k][2]>> ELSE <<>>],
                     LAMBDA x : x # <<>>))

NewSide(hunk) ==
    Unwrap(SelectSeq([k \in DOMAIN hunk.lines |->
                         IF hunk.lines[k][1] \in {"context", "add"}
                         THEN <<hunk.lines[k][2]>> ELSE <<>>],
                     LAMBDA x : x # <<>>))

\* the 0-based indexes from..to-1 of the hunk's old extent
ExtentFrom(hunk) == hunk.old_start - 1

ExtentTo(hunk) == hunk.old_start - 1 + Len(OldSide(hunk))

\* the hunks are ascending, do not overlap, lie within the original, and their Context
\* and Remove lines are the original's lines at their places
WellPlaced(lines, hunks) ==
    /\ \A h \in DOMAIN hunks :
         /\ hunks[h].old_start >= 1
         /\ ExtentTo(hunks[h]) <= Len(lines)
         /\ OldSide(hunks[h]) = Take(Drop(lines, ExtentFrom(hunks[h])), Len(OldSide(hunks[h])))
    /\ \A h \in 1..(Len(hunks) - 1) :
         /\ hunks[h].old_start <= hunks[h + 1].old_start
         /\ ExtentTo(hunks[h]) <= ExtentFrom(hunks[h + 1])

\* lines with the old extent of each of the first h hunks replaced by the hunk's new
\* side, the last hunk first so that the earlier extents keep their indexes
RECURSIVE Spliced(_, _, _)
Spliced(lines, hunks, h) ==
    IF h = 0 THEN lines
    ELSE Spliced(Take(lines, ExtentFrom(hunks[h])) \o NewSide(hunks[h])
                 \o Drop(lines, ExtentTo(hunks[h])),
                 hunks, h - 1)

\* C19: for a FileChange with hunks that are well placed against the original, the
\* result is the original's lines with each hunk's old extent (from index
\* old_start - 1) replaced by the hunk's Context and Add lines, the other lines copied
\* in order, joined by newline.
C19_WellPlacedHunksSplice ==
    (Applied /\ TheChange.hunks # <<>> /\ WellPlaced(Split(original), TheChange.hunks))
        => applied = Join(Spliced(Split(original), TheChange.hunks, Len(TheChange.hunks)))

\* two hunks, each replacing a line, with a line between them that is copied
C19_Witness ==
    /\ Applied /\ Len(TheChange.hunks) = 2
    /\ WellPlaced(Split(original), TheChange.hunks)
    /\ original = "a\nb\na"
    /\ applied = "c\nb\nc"

\* the positions of the invocation's calls of one operation
CallsOf(i, op) == {k \in DOMAIN calls[i] : calls[i][k].op = op}

\* the branch ref was made in this invocation
RefMade(i) == \E k \in CallsOf(i, "post_ref") : calls[i][k].outcome = "ok"

\* what invocation i has done about the pull request, given the title and body the
\* claim asks for: no call while it stands before it, one call once it is over; the call
\* names the branch made here as head and base_branch as base; and when the call
\* succeeded, the result is the `pr` record with the number and URL the remote gave
PullRequestIs(i, title, body) ==
    /\ Cardinality(CallsOf(i, "post_pull")) = (IF inv[i].pc = "done" THEN 1 ELSE 0)
    /\ \A k \in CallsOf(i, "post_pull") :
         /\ k = Len(calls[i])
         /\ calls[i][k].data.head = inv[i].branch_name
         /\ \E j \in CallsOf(i, "post_ref") :
              calls[i][j].outcome = "ok" /\ calls[i][j].data.ref = "refs/heads/" \o calls[i][k].data.head
         /\ calls[i][k].data.base = args[i].base_branch
         /\ calls[i][k].data.title = title
         /\ calls[i][k].data.body = body
         /\ calls[i][k].outcome = "ok" =>
              /\ inv[i].result.kind = "return"
              /\ inv[i].result.type = "pr"
              /\ inv[i].result.pr_number \in 1..pulls
              /\ inv[i].result.pr_url = "pull-" \o ToString(inv[i].result.pr_number)

\* C20 as claimed: with branch_only false and the ref made, there is exactly one
\* pull-request call, from the new branch into base_branch, whose title is the first line
\* of the commit message and whose body is the rest of the message, or the default text
\* when the rest is empty; on success the result is the PR's number and URL, type 'pr'.
C20_PullRequestLiteral ==
    \A i \in Invocations :
        (~args[i].branch_only /\ RefMade(i)) =>
            LET lines == Split(args[i].commit_message)
                rest == Join(Tail(lines))
            IN  PullRequestIs(i, Head(lines), IF rest = "" THEN DefaultBody ELSE rest)

\* C20, amended: the same, the title being the first line of the message stripped of
\* surrounding whitespace, and the body the rest of that, stripped again.
C20_PullRequest ==
    \A i \in Invocations :
        (~args[i].branch_only /\ RefMade(i)) =>
            LET lines == Split(Strip(args[i].commit_message))
                rest == Strip(Join(Tail(lines)))
            IN  PullRequestIs(i, Head(lines), IF rest = "" THEN DefaultBody ELSE rest)

\* a pull request made from a message of a title, a blank line and a body
C20_Witness ==
    \E i \in Invocations :
        /\ ~args[i].branch_only /\ RefMade(i) /\ inv[i].pc = "done"
        /\ args[i].commit_message = "Fix bug\n\nDetails\n"
        /\ \E k \in CallsOf(i, "post_pull") :
             /\ calls[i][k].outcome = "ok"
             /\ calls[i][k].data.title = "Fix bug"
             /\ calls[i][k].data.body = "Details"
        /\ inv[i].result.kind = "return" /\ inv[i].result.type = "pr"

\* the lines of the text that was parsed (InitParse joins them into patch)
ParsedLines == src.lines

ParseDone == ppc = "parsed" /\ src.kind = "lines"

\* the lines that end the run of content lines of a hunk: a file header or an @@ line
IsMark(line) == StartsWith(line, "+++ b/") \/ StartsWith(line, "@@")

\* the last mark before line k, 0 when there is none
LastMark(lines, k) ==
    IF \A j \in 1..(k - 1) : ~IsMark(lines[j]) THEN 0
    ELSE CHOOSE j \in 1..(k - 1) :
             IsMark(lines[j]) /\ \A m \in (j + 1)..(k - 1) : ~IsMark(lines[m])

\* an @@ line the hunk-header pattern matches
WellFormedHeader(line) == StartsWith(line, "@@") /\ MatchHunk(line) # <<>>

\* the content lines whose last mark is a well-formed hunk header
UnderHeader(lines) ==
    { k \in DOMAIN lines :
        /\ TagContentLine(lines[k]) # <<>>
        /\ LastMark(lines, k) # 0
        /\ WellFormedHeader(lines[LastMark(lines, k)]) }

RECURSIVE SumOver(_, _)
SumOver(f, k) == IF k = 0 THEN 0 ELSE f[k] + SumOver(f, k - 1)

\* the hunks of all files, and the tagged lines of all hunks, counted
HunkTotal(changes) ==
    SumOver([k \in DOMAIN changes.fc |-> Len(changes.fc[k].hunks)], Len(changes.fc))

HunkLineTotal(changes) ==
    SumOver([k \in DOMAIN changes.fc |->
                SumOver([h \in DOMAIN changes.fc[k].hunks |->
                            Len(changes.fc[k].hunks[h].lines)],
                        Len(changes.fc[k].hunks))],
            Len(changes.fc))

\* C21: an @@ line that does not match the hunk-header grammar appends no hunk (there
\* are no more hunks than well-formed headers), and the content lines after it, up to
\* the next well-formed hunk header or file header, are in no hunk's line list and in
\* neither added_lines nor removed_lines (no more lines are kept than stand under a
\* well-formed header), also when the file has an earlier well-formed hunk.
C21_MalformedHeaderDrops ==
    ParseDone =>
        /\ HunkTotal(parsed)
             <= Cardinality({k \in DOMAIN ParsedLines : WellFormedHeader(ParsedLines[k])})
        /\ HunkLineTotal(parsed) <= Cardinality(UnderHeader(ParsedLines))
        /\ \A k \in DOMAIN parsed.fc :
             Len(parsed.fc[k].added_lines) + Len(parsed.fc[k].removed_lines)
                 <= Cardinality(UnderHeader(ParsedLines))

\* the cursor after the first h hunks (0 before the first)
RECURSIVE CursorAfter(_, _, _)
CursorAfter(original_lines, hunks, h) ==
    IF h = 0 THEN 0
    ELSE LET c == CopyUntil(original_lines, <<>>, CursorAfter(original_lines, hunks, h - 1),
                            hunks[h].old_start - 1)
         IN  ApplyLines(hunks[h].lines, 1, <<>>, c.original_idx).original_idx

\* the cursor when hunk h begins its own lines (after the copy up to its old_start)
CursorAt(original_lines, hunks, h) ==
    CopyUntil(original_lines, <<>>, CursorAfter(original_lines, hunks, h - 1),
              hunks[h].old_start - 1).original_idx

\* the 0-based positions of the original the Context and Remove lines step over
Consumed(original_lines, hunks) ==
    UNION { CursorAt(original_lines, hunks, h)
              .. (CursorAfter(original_lines, hunks, h) - 1) : h \in DOMAIN hunks }

\* the two texts have as many lines and differ only at the positions in P (0-based)
SameOutside(x, y, P) ==
    LET lx == Split(x)
        ly == Split(y)
    IN  /\ Len(lx) = Len(ly)
        /\ \A k \in DOMAIN lx : (k - 1) \notin P => lx[k] = ly[k]

\* C22: the result does not depend on the text of the original lines at the
\* positions the Context and Remove lines consume: an original of as many lines that
\* differs from this one only at such positions gives the same output for the same
\* FileChange (and the call returns a text for every input, it signals no mismatch).
C22_ConsumedTextIgnored ==
    Applied =>
        LET consumed == Consumed(Split(original), TheChange.hunks)
        IN  \A other \in OriginalTexts :
                SameOutside(original, other, consumed)
                    => ApplyPatchToContent(other, TheChange) = applied

\* a hunk whose Context line declares "b" where the original has "a": the output has
\* "b", as it has for the original that does hold "b" there
C22_Witness ==
    /\ Applied
    /\ original = "a\na\nb"
    /\ TheChange.hunks = <<HunkAt(1, <<<<"context", "b">>, <<"remove", "a">>>>)>>
    /\ applied = "b\nb"
    /\ ApplyPatchToContent("b\nb\nb", TheChange) = applied

\* the call of invocation i at position k is the only one of its operation
OnlyCall(i, op, k) == CallsOf(i, op) = {k}

\* the base commit the claim names: the caller's base_commit_id when given, else the
\* tip the remote reported for base_branch
BaseCommitOf(i) ==
    IF args[i].base_commit_id # "" THEN args[i].base_commit_id
    ELSE "tip-" \o args[i].base_branch

\* C23: in every successful execution the objects are chained by data flow: the base
\* commit is base_commit_id when given (no ref is read then) and else the tip of
\* base_branch; the base contents are fetched at that commit; the tree is made on that
\* commit's tree; the commit has that base commit as its only parent, the new tree as
\* its tree and the whole message; and the ref points at the commit made here.
C23_ChainedByDataFlow ==
    \A i \in Invocations :
        inv[i].result.kind = "return" =>
            LET base == BaseCommitOf(i)
                cs == calls[i]
            IN  /\ args[i].base_commit_id # "" => CallsOf(i, "get_ref") = {}
                /\ args[i].base_commit_id = "" =>
                     /\ OnlyCall(i, "get_ref", 1)
                     /\ cs[1].data = args[i].base_branch
                /\ \E k \in DOMAIN cs : OnlyCall(i, "get_commit", k) /\ cs[k].data = base
                /\ \A k \in CallsOf(i, "get_contents") : cs[k].data.ref = base
                /\ \E t, c, r \in DOMAIN cs :
                     /\ OnlyCall(i, "post_tree", t)
                     /\ OnlyCall(i, "post_commit", c)
                     /\ OnlyCall(i, "post_ref", r)
                     /\ cs[t].data.base_tree = "tree-of-" \o base
                     /\ cs[c].data.parents = <<base>>
                     /\ cs[c].data.tree = Some(TreeSha(cs[t].data.base_tree, cs[t].data.tree))
                     /\ cs[c].data.message = args[i].commit_message
                     /\ cs[r].data.sha # None
                     /\ cs[r].data.sha[1].message = cs[c].data.message
                     /\ cs[r].data.sha[1].tree = cs[c].data.tree
                     /\ cs[r].data.sha[1].parents = cs[c].data.parents
                     /\ cs[r].data.sha = inv[i].new_commit_sha

\* a returned call on the tip of the branch, with a base content fetched at that tip
C23_Witness ==
    \E i \in Invocations :
        /\ inv[i].result.kind = "return"
        /\ args[i].base_commit_id = ""
        /\ args[i].commit_message = "Fix bug\n\nDetails\n"
        /\ \E k \in CallsOf(i, "get_contents") :
             calls[i][k].outcome = "ok" /\ calls[i][k].data.ref = "tip-main"
        /\ \E k \in CallsOf(i, "post_commit") : calls[i][k].data.parents = <<"tip-main">>

\* the paths of the `+++ b/<path>` lines, in order
HeaderPaths(lines) ==
    LET hs == SelectSeq(lines, LAMBDA l : StartsWith(l, "+++ b/"))
    IN  [k \in DOMAIN hs |-> StrFrom(hs[k], 7)]

\* a list without its repetitions: each element at the place it first has
RECURSIVE FirstAppearances(_)
FirstAppearances(seq) ==
    IF seq = <<>> THEN <<>>
    ELSE LET front == FirstAppearances(SubSeq(seq, 1, Len(seq) - 1))
             last == seq[Len(seq)]
         IN  IF \E k \in DOMAIN front : front[k] = last THEN front ELSE Append(front, last)

\* the loop over the map has ended and the tree call has been issued
TreeIssued(i) == CallsOf(i, "post_tree") # {}

\* C24: the parsed map has one entry per distinct path a `+++ b/<path>` header opens,
\* in the order the paths first appear; the builder appends one tree entry per map
\* entry, in that order (all of them once the loop is over); and it issues one blob
\* call for each path that is not handled as deleted (one at most while the loop
\* runs) and none for a path that is.
C24_OneEntryPerPath ==
    \A i \in Invocations :
        Began(i) =>
            LET order == inv[i].file_changes.order
                fc == inv[i].file_changes.fc
                items == inv[i].tree_items
                blobs(P) == Cardinality({k \in CallsOf(i, "post_blob") : calls[i][k].path = P})
            IN  /\ order = FirstAppearances(HeaderPaths(Split(args[i].patch)))
                /\ Len(items) <= Len(order)
                /\ \A m \in DOMAIN items : items[m].path = order[m]
                /\ \A k \in CallsOf(i, "post_tree") : calls[i][k].data.tree = items
                /\ TreeIssued(i) => Len(items) = Len(order)
                /\ \A k \in DOMAIN order :
                     /\ FileKind(fc[k]) = "deleted" => blobs(order[k]) = 0
                     /\ FileKind(fc[k]) # "deleted" =>
                          /\ blobs(order[k]) <= 1
                          /\ TreeIssued(i) => blobs(order[k]) = 1
                /\ \A k \in CallsOf(i, "post_blob") : HasKey(order, calls[i][k].path)

\* a patch of three sections for two files: two entries in the order of first
\* appearance, one blob for the modified file, a tombstone and no blob for the other
C24_Witness ==
    \E i \in Invocations :
        /\ args[i].sections = RepeatedSections
        /\ inv[i].file_changes.order = <<"a.txt", "old.txt">>
        /\ TreeIssued(i)
        /\ Len(inv[i].tree_items) = 2
        /\ inv[i].tree_items[1].sha # None
        /\ inv[i].tree_items[2] = Tombstone("old.txt")
        /\ Cardinality(CallsOf(i, "post_blob")) = 1

\* the tag the claim gives a line by its first character, "none" for any other line
TagOf(line) ==
    CASE StartsWith(line, "+") /\ ~StartsWith(line, "+++") -> "add"
      [] StartsWith(line, "-") /\ ~StartsWith(line, "---") -> "remove"
      [] StartsWith(line, " ") -> "context"
      [] OTHER -> "none"

\* the section the entry of P is made from: the lines after the last header of path P,
\* up to the next file header
LastSection(lines, P) ==
    LET at == {k \in DOMAIN lines : lines[k] = "+++ b/" \o P}
        j == CHOOSE k \in at : \A m \in at : m <= k
        next == {k \in (j + 1)..Len(lines) : StartsWith(lines[k], "+++ b/")}
        end == IF next = {} THEN Len(lines)
               ELSE (CHOOSE k \in next : \A m \in next : k <= m) - 1
    IN  IF end <= j THEN <<>> ELSE SubSeq(lines, j + 1, end)

\* the lines of a section that stand behind its first well-formed hunk header, tagged
TaggedBehindHeader(sec) ==
    LET heads == {k \in DOMAIN sec : WellFormedHeader(sec[k])}
        kept == SelectSeq([k \in DOMAIN sec |->
                              IF (\E h \in heads : h < k) /\ TagOf(sec[k]) # "none"
                              THEN <<TagOf(sec[k]), StrFrom(sec[k], 2)>> ELSE <<>>],
                          LAMBDA x : x # <<>>)
    IN  kept

\* the tagged lines of all hunks of a file, in order
RECURSIVE AllHunkLines(_, _)
AllHunkLines(hunks, h) ==
    IF h > Len(hunks) THEN <<>> ELSE hunks[h].lines \o AllHunkLines(hunks, h + 1)

\* C25: for every file of the returned map, added_lines is the texts of the Add lines
\* of its hunks in hunk order and removed_lines those of the Remove lines; the tagged
\* lines of its hunks are the lines of its section behind an open hunk that start with
\* `+` (not `+++`), `-` (not `---`) or a space, tagged Add, Remove or Context and
\* without their first character (all of them, in order, when every @@ line of the
\* section is well formed); a file without hunks has both lists empty.
C25_FlattenedFromHunks ==
    ParseDone =>
        \A k \in DOMAIN parsed.fc :
            LET f == parsed.fc[k]
                P == parsed.order[k]
                sec == IF P = "" THEN <<>> ELSE LastSection(ParsedLines, P)
            IN  /\ f.added_lines = Unwrap(TaggedTexts(f.hunks, 1, "add"))
                /\ f.removed_lines = Unwrap(TaggedTexts(f.hunks, 1, "remove"))
                /\ \A m \in DOMAIN AllHunkLines(f.hunks, 1) :
                     \E j \in DOMAIN sec :
                         /\ TagOf(sec[j]) # "none"
                         /\ AllHunkLines(f.hunks, 1)[m] = <<TagOf(sec[j]), StrFrom(sec[j], 2)>>
                /\ (\A j \in DOMAIN sec : StartsWith(sec[j], "@@") => WellFormedHeader(sec[j]))
                     => AllHunkLines(f.hunks, 1) = TaggedBehindHeader(sec)
                /\ Len(f.hunks) = Cardinality({j \in DOMAIN sec : WellFormedHeader(sec[j])})
                /\ f.hunks = <<>> => (f.added_lines = <<>> /\ f.removed_lines = <<>>)

\* one hunk with a line of each tag
C25_Witness ==
    /\ ParseDone
    /\ ParsedLines = <<"+++ b/f", "@@ -1 +1 @@", " c", "-b", "+a">>
    /\ parsed.order = <<"f">>
    /\ parsed.fc[1].hunks[1].lines = << <<"context", "c">>, <<"remove", "b">>, <<"add", "a">> >>
    /\ parsed.fc[1].added_lines = <<"a">>
    /\ parsed.fc[1].removed_lines = <<"b">>

\* the session a key names, in either form
SessionOfKey(k) == IF StartsWith(k, "sessions/") THEN RawOf(k) ELSE k

\* the entry of key k in cache c, None when there is none
EntryAt(c, k) == IF k \in DOMAIN c THEN Some(c[k]) ELSE None

\* the sessions one of whose entries this step creates, changes or removes
Touched ==
    { SessionOfKey(k) : k \in { x \in DOMAIN completed_session_data
                                        \cup DOMAIN completed_session_data' :
                                  EntryAt(completed_session_data, x)
                                      # EntryAt(completed_session_data', x) } }

\* the sessions named by the requests whose handlers take this step
Handled == { SessionOfKey(req'[r].session_id) : r \in {x \in Requests : req'[x] # req[x]} }

\* line 355 has found the entry of the request
PastCheck(q) == q.kind = "publish" /\ q.hit \in {"cached", "derived", "late"}

\* C26: publish, completion-event and delete operations interleave at every await, on
\* the same and on different sessions, and (1) the step in which a publish request
\* passes its presence check reads the entry: the key is in the cache, the request does
\* not fail, and the pipeline gets the entry's patch; (2) a step touches the entries of
\* one session at most, the one its request names, and an entry it writes is made from
\* that session's own change set.
C26_InterleavingsKeepEntries ==
    /\ [][\A r \in Requests :
            (PastCheck(req'[r]) /\ ~PastCheck(req[r])) =>
                /\ req'[r].session_id \in DOMAIN completed_session_data'
                /\ req'[r].status # 500
                /\ req'[r].inv # 0 =>
                     args'[req'[r].inv].patch
                         = completed_session_data'[req'[r].session_id].patch]_vars
    /\ [][/\ Cardinality(Touched) <= 1
          /\ Handled # {} => Touched \subseteq Handled
          /\ \A k \in DOMAIN completed_session_data' :
               EntryAt(completed_session_data, k) # Some(completed_session_data'[k])
                   => completed_session_data'[k]
                          = DataOf(jules[SessionOfKey(k)].change_set[1])]_vars

\* while the pipeline of a publish request for one session runs, a delete of the same
\* session has been accepted and has removed the entry, and the other session's
\* entries are in the cache under both keys
C26_Witness ==
    /\ PublishOf(1) /\ req[1].pc = "pipeline" /\ req[1].session_id = SessionName
    /\ req[2].kind = "delete" /\ req[2].status = 200 /\ req[2].session_id = SessionRaw
    /\ SessionName \notin DOMAIN completed_session_data
    /\ OtherRaw \in DOMAIN completed_session_data
    /\ NameOf(OtherRaw) \in DOMAIN completed_session_data
    /\ completed_session_data[OtherRaw] = DataOf(ChangeSetOf(OtherRaw))

\* the patch is written in standard unidiff order: each section is an old-side line,
\* a new-side line and hunks
StandardOrder(secs) ==
    secs # <<>> /\ \A n \in DOMAIN secs : secs[n].kind \in {"create", "modify", "delete"}

\* the kinds of the sections written for path P
KindsFor(secs, P) == { secs[n].kind : n \in {m \in DOMAIN secs : secs[m].path = P} }

\* C27: in a patch of several files in standard unidiff order, the entry of P has
\* is_new only if P's own section has `--- /dev/null` as its old side and is_deleted
\* only if P's own section has `+++ /dev/null` as its new side: the marker of another
\* file's section does not change P's flags.
C27_FlagsLocalToSection ==
    \A i \in Invocations :
        (Began(i) /\ StandardOrder(args[i].sections)) =>
            \A k \in DOMAIN inv[i].file_changes.order :
                LET P == inv[i].file_changes.order[k]
                    f == inv[i].file_changes.fc[k]
                IN  /\ f.is_new => "create" \in KindsFor(args[i].sections, P)
                    /\ f.is_deleted => "delete" \in KindsFor(args[i].sections, P)

Min2(a, b) == IF a <= b THEN a ELSE b

Max2(a, b) == IF a >= b THEN a ELSE b

\* the lines with 0-based indexes a..b-1, none when b <= a
Slice(lines, a, b) == IF b <= a THEN <<>> ELSE SubSeq(lines, a + 1, b)

\* the walk in closed form: hunk h begins where the cursor stands, or at old_start - 1
\* when that lies ahead (at the end of the original when it lies beyond it), and moves
\* the cursor by its Context and Remove lines
RECURSIVE WalkEnd(_, _, _)
WalkEnd(lines, hunks, h) ==
    IF h = 0 THEN 0
    ELSE Max2(WalkEnd(lines, hunks, h - 1), Min2(hunks[h].old_start - 1, Len(lines)))
         + Len(OldSide(hunks[h]))

WalkStart(lines, hunks, h) ==
    Max2(WalkEnd(lines, hunks, h - 1), Min2(hunks[h].old_start - 1, Len(lines)))

\* what the first h hunks put out, in the order given
RECURSIVE WalkOut(_, _, _)
WalkOut(lines, hunks, h) ==
    IF h = 0 THEN <<>>
    ELSE WalkOut(lines, hunks, h - 1)
         \o Slice(lines, WalkEnd(lines, hunks, h - 1), WalkStart(lines, hunks, h))
         \o NewSide(hunks[h])

\* C28: for every original and every FileChange with hunks (old_start 0, beyond the end,
\* not ascending), the call returns; the cursor never decreases; the hunks are applied
\* in the order given, each where the cursor stands or at old_start - 1 when that lies
\* ahead, so that a hunk behind the cursor does not rewind it; and the lines copied
\* after the last hunk are those from the cursor on, none when it is past the end.
C28_CursorOnlyAdvances ==
    (Applied /\ TheChange.hunks # <<>>) =>
        LET lines == Split(original)
            hunks == TheChange.hunks
        IN  /\ \A h \in DOMAIN hunks :
                 /\ CursorAt(lines, hunks, h) >= CursorAfter(lines, hunks, h - 1)
                 /\ CursorAfter(lines, hunks, h) >= CursorAt(lines, hunks, h)
                 /\ hunks[h].old_start - 1 <= CursorAfter(lines, hunks, h - 1)
                      => CursorAt(lines, hunks, h) = CursorAfter(lines, hunks, h - 1)
                 /\ CursorAfter(lines, hunks, h) = WalkEnd(lines, hunks, h)
            /\ applied = Join(WalkOut(lines, hunks, Len(hunks))
                              \o Slice(lines, WalkEnd(lines, hunks, Len(hunks)), Len(lines)))

\* a hunk beyond the end of a two-line original, then a hunk with old_start 0 behind
\* the cursor: both lines are copied, the second hunk's line comes last, and nothing is
\* copied after it
C28_Witness ==
    /\ Applied
    /\ original = "a\nb"
    /\ TheChange.hunks = << HunkAt(3, << <<"context", "a">>, <<"remove", "a">> >>),
                            HunkAt(0, << <<"add", "c">> >>) >>
    /\ applied = "a\nb\na\nc"

\* the hunks are ascending, do not overlap and lie within the original
InPlace(lines, hunks) ==
    /\ \A h \in DOMAIN hunks : hunks[h].old_start >= 1 /\ ExtentTo(hunks[h]) <= Len(lines)
    /\ \A h \in 1..(Len(hunks) - 1) :
         /\ hunks[h].old_start <= hunks[h + 1].old_start
         /\ ExtentTo(hunks[h]) <= ExtentFrom(hunks[h + 1])

\* the lines of the original, plus the Add lines, minus the Remove lines of all hunks
CountExpected(lines, hunks) ==
    Len(lines) + Len(TaggedTexts(hunks, 1, "add")) - Len(TaggedTexts(hunks, 1, "remove"))

\* C29 as claimed: for a FileChange with hunks in place, the output split on newline has
\* as many lines as the original split on newline, plus the Add lines, minus the Remove
\* lines.
C29_LineCountLiteral ==
    (Applied /\ TheChange.hunks # <<>> /\ InPlace(Split(original), TheChange.hunks))
        => Len(Split(applied)) = CountExpected(Split(original), TheChange.hunks)

\* C29, amended: the same when that number is not zero; when it is zero (every line is
\* removed and none added) the output is the empty text, which splits into one line.
C29_LineCount ==
    (Applied /\ TheChange.hunks # <<>> /\ InPlace(Split(original), TheChange.hunks))
        => LET n == CountExpected(Split(original), TheChange.hunks)
           IN  IF n = 0 THEN applied = "" ELSE Len(Split(applied)) = n

\* three lines, one added and two removed by two hunks: two lines
C29_Witness ==
    /\ Applied
    /\ original = "a\nb\na"
    /\ TheChange.hunks = << HunkAt(1, << <<"remove", "a">>, <<"add", "c">> >>),
                            HunkAt(3, << <<"remove", "a">> >>) >>
    /\ InPlace(Split(original), TheChange.hunks)
    /\ applied = "c\nb"

\* C30: whenever poll_once is not running, a session id is listed under some
\* user in user_sessions exactly when it is a key of active_sessions
Listed == {s \in SessionIds : \E u \in DOMAIN user_sessions : ListHas(user_sessions[u], s)}

C30_MapsConsistent ==
    poll.pc = "idle" => Listed = DictKeys(active_sessions)

====
